---- MODULE Spec2Model ----
(***************************************************************************)
(* A model of the face-redaction tool: the ImageRedaction session          *)
(* component (src/unnamed/part_004) and the ImageProcessor engine          *)
(* (src/unnamed/part_002).                                                 *)
(*                                                                         *)
(* Spec        the ImageRedaction session: React state, refs, timers,      *)
(*             closures captured by timers, and in-flight promises.        *)
(* SpecProc    ImageProcessor.detectFaces: model initialization, the       *)
(*             isProcessing guard and the calls in flight.                 *)
(* SpecRender  ImageProcessor.applyRedaction: the shared canvas pixel by   *)
(*             pixel, with drawing calls that may throw.                   *)
(* SpecFusion  ImageProcessor.advancedEnsembleDetection: the candidates of *)
(*             the strategies, landmark validation and the fusion.         *)
(* SpecCluster confidenceBasedClustering on a short list of candidates.    *)
(* SpecIoU     calculateIoU on a pair of rectangles, in both orders.       *)
(* SpecZone    handleCanvasClick's manual branch: calculateSmartZoneSize   *)
(*             for a click, an image size and the regions present.         *)
(*             and the manual region built from it.                        *)
(* SpecApply   the session with an Apply handler that may run twice from   *)
(*             one render.                                                 *)
(* SpecNms     adaptiveNonMaxSuppression on a short list of candidates.    *)
(* SpecFilter  advancedQualityFilter on a short list of candidates.        *)
(* SpecScale   scaledFace on the preview and on the export surface.        *)
(* SpecPass    detection passes through session and processor, with the   *)
(*             fairness of settled promises.                               *)
(* Confidences are integers in units of 10^-8, sensitivities and detector  *)
(* scores in hundredths, so that every product the code forms is exact     *)
(* (a factor 1.1 is taken as (c / 10) * 11, c being a multiple of 10).     *)
(***************************************************************************)
EXTENDS Integers, Sequences, FiniteSets, TLC

(***************************************************************************)
(* Bounds of the model.                                                    *)
(***************************************************************************)
MaxEdits == 2      \* user inputs (clicks, slider moves) in one session
MaxFaces == 2      \* regions one detection pass returns
NSpots == 2        \* distinct places of the canvas a click can land on
MaxTs == 1         \* readings of Date.now() are 0..MaxTs
MaxCalls == 2      \* detectFaces calls made on one ImageProcessor
MaxRFaces == 2     \* faces passed to one applyRedaction call
MaxFailAt == 5     \* drawing calls 1..MaxFailAt of a render may throw
MaxPreds == 2      \* detector predictions in one detection pass
MaxZFaces == 2     \* regions present when a manual region is added
MaxKCands == 2     \* candidates handed to confidenceBasedClustering on its own
MaxNCands == 3     \* candidates handed to adaptiveNonMaxSuppression on its own
MaxFCands == 2     \* candidates handed to advancedQualityFilter on its own

(***************************************************************************)
(* Program constants: the delays of the setTimeout calls, in units of      *)
(* 100 ms.                                                                 *)
(***************************************************************************)
DetectDelay == 5          \* 500 ms
ResetDelay == 3           \* 300 ms
PreviewEffectDelay == 2   \* 200 ms
ToggleDelay == 1          \* 100 ms
MethodDelay == 2          \* 200 ms
AutoPreviewDelay == 3     \* 300 ms
DefaultLevel == 1         \* useState(1)

Methods == {"blur", "pixelate", "blackout"}
Levels == 0..2

VARIABLES
  \* ---- ImageRedaction: React state and refs
  imageLoaded,            \* useState(false)
  faces,                  \* useState<DetectedFace[]>([])
  selectedMethod,         \* useState('blur')
  sensitivityLevel,       \* useState(1)
  processing,             \* useState(false)
  detecting,              \* useState(false)
  processedBlob,          \* useState<Blob | null>(null): what the blob was rendered from
  livePreviewUrl,         \* useState(''): what the preview was rendered from
  error,                  \* useState<string | null>(null), as "is set"
  detectionComplete,      \* useState(false)
  isDetectionRunningRef,  \* useRef(false)
  glp,                    \* the values the current generateLivePreview closure captured
  rfdGlp,                 \* the generateLivePreview captured by runFaceDetection
  \* ---- the event loop
  timers,                 \* pending setTimeout callbacks, in order of registration
  passes,                 \* detectFaces promises in flight
  commits,                \* applyRedaction promises in flight
  previews,               \* createLivePreview promises in flight
  clock,                  \* last reading of Date.now()
  \* ---- history
  edits,                  \* user inputs so far
  facesLevel,             \* sensitivity of the pass that settled last (-1: none)
  sensChanged,            \* the user has moved the slider
  dropped,                \* runFaceDetection calls that returned at the guard
  previewFailed,          \* a createLivePreview promise rejected
  \* ---- ImageProcessor: fields, and the detectFaces calls in flight
  initializationPromise,  \* "pending", "resolved" or "rejected"
  isInitialized,          \* private isInitialized = false
  models,                 \* keys of this.models whose entry isLoaded
  faceMeshDetector,       \* this.faceMeshDetector is not null
  isProcessing,           \* private isProcessing = false
  calls,                  \* per detectFaces call: where it is, what it returned
  \* ---- ImageProcessor.applyRedaction: the shared canvas and the call
  canvas,                 \* this.canvas with this.ctx: size, pixels, filter
  rImg,                   \* the decoded image: [width, height]
  rFaces,                 \* the faces argument
  rMethod,                \* the method argument
  rOutcome,               \* "none", "loading", "resolved" or "rejected"
  rTrace,                 \* the canvas as each face in turn left it
  \* ---- ImageProcessor.advancedEnsembleDetection: one pass, stage by stage
  sensitivity,            \* the sensitivity argument, in hundredths
  predictions,            \* what the detectors report, per strategy
  allCandidates,          \* after the four detection strategies
  validatedResults,       \* after landmarkGuidedValidation
  qualityFiltered,        \* after advancedQualityFilter
  clustered,              \* after confidenceBasedClustering
  finalFaces,             \* what advancedEnsembleFusion returns
  stage,                  \* "start", "collected", "validated" or "fused"
  available,              \* the detector models that are loaded
  threw,                  \* the strategy whose detector invocation throws, or "none"
  meshOutcome,            \* FaceMesh in this pass: "none" (not loaded), "threw", "ok"
  landmarkSets,           \* the boxes of the landmark sets FaceMesh reported
  \* ---- a canvas click that adds a manual region
  zImage,                 \* imageSize: [width, height]
  zFaces,                 \* the regions present at the click
  zClick,                 \* <<clickX, clickY>>, in image coordinates
  zSize,                  \* the zone size returned, a fraction <<num, den>>
  zTier,                  \* "none", or the strategy that produced zSize
  zRegion,                \* newFace, once the handler has built it
  \* ---- calculateIoU on two boxes
  box1,                   \* the first rectangle
  box2,                   \* the second rectangle
  iou12,                  \* calculateIoU(box1, box2), a fraction <<num, den>>
  iou21,                  \* calculateIoU(box2, box1)
  iouDone,                \* whether the two calls have returned
  \* ---- confidenceBasedClustering on its own
  kCandidates,            \* the candidates argument
  kSensitivity,           \* the sensitivity argument, in hundredths
  kClusters,              \* the clusters the loop built
  kResult,                \* the list returned
  kDone,                  \* whether the call has returned
  \* ---- one call of adaptiveNonMaxSuppression
  nCandidates,            \* the candidates passed
  nSensitivity,           \* the sensitivity passed, in hundredths
  nResult,                \* the regions returned
  nDone,                  \* whether the call has returned
  \* ---- one call of advancedQualityFilter
  fCandidates,            \* the candidates passed
  fSensitivity,           \* the sensitivity passed, in hundredths
  fResult,                \* the candidates returned
  fDone,                  \* whether the call has returned
  \* ---- one face scaled to a drawing surface
  sImg,                   \* the decoded image: [width, height]
  sFace,                  \* the face, in image coordinates
  sKind,                  \* "preview" (createLivePreview) or "export" (applyRedaction)
  sSurface,               \* the size of the surface
  sRect,                  \* scaledFace
  sDone                   \* whether the face has been scaled

sessVars == <<imageLoaded, faces, selectedMethod, sensitivityLevel, processing,
              detecting, processedBlob, livePreviewUrl, error, detectionComplete,
              isDetectionRunningRef, glp, rfdGlp, timers, passes, commits,
              previews, clock, edits, facesLevel, sensChanged, dropped,
              previewFailed>>

procVars == <<initializationPromise, isInitialized, models, faceMeshDetector,
              isProcessing, calls>>

rendVars == <<canvas, rImg, rFaces, rMethod, rOutcome, rTrace>>

fusVars == <<sensitivity, predictions, allCandidates, validatedResults,
             qualityFiltered, clustered, finalFaces, stage, available, threw,
             meshOutcome, landmarkSets>>

zoneVars == <<zImage, zFaces, zClick, zSize, zTier, zRegion>>

iouVars == <<box1, box2, iou12, iou21, iouDone>>

clusVars == <<kCandidates, kSensitivity, kClusters, kResult, kDone>>

nmsVars == <<nCandidates, nSensitivity, nResult, nDone>>

filtVars == <<fCandidates, fSensitivity, fResult, fDone>>

scaleVars == <<sImg, sFace, sKind, sSurface, sRect, sDone>>

vars == <<sessVars, procVars, rendVars, fusVars, zoneVars, iouVars, clusVars, nmsVars, filtVars, scaleVars>>

(***************************************************************************)
(* Helpers on sequences.                                                   *)
(***************************************************************************)
RemoveAt(s, i) == SubSeq(s, 1, i - 1) \o SubSeq(s, i + 1, Len(s))

RemoveKind(s, k) == SelectSeq(s, LAMBDA t : t.kind # k)

(***************************************************************************)
(* Values of the session.                                                  *)
(***************************************************************************)
\* faces.filter(f => f.enabled)
Enabled(fs) == SelectSeq(fs, LAMBDA f : f.enabled)

\* detectedFaces.map((face, index) => ({...face, id: `face-${index}`, enabled: true}))
FacesWithIds(k) ==
  [i \in 1..k |-> [id |-> [k |-> "face", n |-> i - 1], enabled |-> TRUE, spot |-> i]]

\* a manual region: id `manual-${Date.now()}`, enabled, at the clicked place
ManualFace(ts, spot) ==
  [id |-> [k |-> "manual", n |-> ts], enabled |-> TRUE, spot |-> spot]

\* prev.map(face => face.id === faceId ? {...face, enabled: !face.enabled} : face)
ToggleId(fs, id) ==
  [i \in 1..Len(fs) |->
     IF fs[i].id = id THEN [fs[i] EXCEPT !.enabled = ~fs[i].enabled] ELSE fs[i]]

\* prev.map(face => ({...face, enabled: true}))
EnableAll(fs) == [i \in 1..Len(fs) |-> [fs[i] EXCEPT !.enabled = TRUE]]

\* what an image (a preview or a committed blob) was rendered from
NoRender == [has |-> FALSE, faces |-> <<>>, method |-> "blur"]
Rendered(fs, m) == [has |-> TRUE, faces |-> fs, method |-> m]

\* the values a generateLivePreview closure reads: useCallback(..., [file, selectedMethod, processing])
Closure(fs, m, p) == [faces |-> fs, method |-> m, processing |-> p]

Timer(kind, delay, cl, hasArg, arg, sens) ==
  [kind |-> kind, rem |-> delay, delay |-> delay, glp |-> cl,
   hasArg |-> hasArg, arg |-> arg, sens |-> sens]

DetectKinds == {"detect", "resetDetect"}
PreviewKinds == {"previewEffect", "previewToggle", "previewMethod", "previewDetect"}

(***************************************************************************)
(* A render: the closures and effects that follow a state update.          *)
(***************************************************************************)
\* generateLivePreview is re-created when selectedMethod or processing changed,
\* and then captures the faces of that render.
GlpAfter(fs, m, p) ==
  IF m # selectedMethod \/ p # processing THEN Closure(fs, m, p) ELSE glp

\* useEffect(..., [faces, selectedMethod, generateLivePreview, detecting, processing]):
\* the cleanup clears the effect's own timer, then a new one is set.
PreviewEffect(ts, fs, d, p, cl) ==
  LET cleaned == RemoveKind(ts, "previewEffect")
  IN  IF Len(fs) > 0 /\ ~d /\ ~p
        THEN Append(cleaned,
                    Timer("previewEffect", PreviewEffectDelay, cl, FALSE, <<>>, 0))
        ELSE cleaned

\* useEffect(..., [imageLoaded, runFaceDetection, sensitivityLevel]), when it
\* passes its guard: clear the pending detection timer and set a new one.
DetectEffect(ts, level) ==
  Append(RemoveKind(ts, "detect"),
         Timer("detect", DetectDelay, Closure(<<>>, "blur", FALSE), FALSE, <<>>, level))

(***************************************************************************)
(* Init: the state after the first render of ImageRedaction.               *)
(***************************************************************************)
SessInit ==
  /\ imageLoaded = FALSE
  /\ faces = <<>>
  /\ selectedMethod = "blur"
  /\ sensitivityLevel = DefaultLevel
  /\ processing = FALSE
  /\ detecting = FALSE
  /\ processedBlob = NoRender
  /\ livePreviewUrl = NoRender
  /\ error = FALSE
  /\ detectionComplete = FALSE
  /\ isDetectionRunningRef = FALSE
  /\ glp = Closure(<<>>, "blur", FALSE)
  /\ rfdGlp = Closure(<<>>, "blur", FALSE)
  /\ timers = <<>>
  /\ passes = <<>>
  /\ commits = <<>>
  /\ previews = <<>>
  /\ clock = 0
  /\ edits = 0
  /\ facesLevel = -1
  /\ sensChanged = FALSE
  /\ dropped = 0
  /\ previewFailed = FALSE

(***************************************************************************)
(* User inputs.                                                            *)
(***************************************************************************)
\* <img onLoad={handleImageLoad}>: setImageLoaded(true); runFaceDetection is
\* re-created and the detection effect schedules the first pass.
HandleImageLoad ==
  /\ ~imageLoaded
  /\ imageLoaded' = TRUE
  /\ rfdGlp' = glp
  /\ IF ~isDetectionRunningRef
       THEN /\ timers' = DetectEffect(timers, sensitivityLevel)
            /\ detectionComplete' = FALSE
            /\ processedBlob' = NoRender
            /\ livePreviewUrl' = NoRender
       ELSE UNCHANGED <<timers, detectionComplete, processedBlob, livePreviewUrl>>
  /\ UNCHANGED <<faces, selectedMethod, sensitivityLevel, processing, detecting,
                 error, isDetectionRunningRef, glp, passes, commits, previews,
                 clock, edits, facesLevel, sensChanged, dropped, previewFailed>>

\* the slider's onChange (disabled while detecting or processing), then the
\* detection effect.
HandleSensitivityChange(v) ==
  /\ edits < MaxEdits
  /\ ~detecting /\ ~processing
  /\ v # sensitivityLevel
  /\ sensitivityLevel' = v
  /\ sensChanged' = TRUE
  /\ edits' = edits + 1
  /\ IF imageLoaded /\ ~isDetectionRunningRef
       THEN /\ timers' = DetectEffect(timers, v)
            /\ detectionComplete' = FALSE
            /\ processedBlob' = NoRender
            /\ livePreviewUrl' = NoRender
       ELSE UNCHANGED <<timers, detectionComplete, processedBlob, livePreviewUrl>>
  /\ UNCHANGED <<imageLoaded, faces, selectedMethod, processing, detecting, error,
                 isDetectionRunningRef, glp, rfdGlp, passes, commits, previews,
                 clock, facesLevel, dropped, previewFailed>>

\* toggleFace(faceId), reached from handleCanvasClick
ToggleFace(id) ==
  LET updated == ToggleId(faces, id)
      ts1 == Append(timers, Timer("previewToggle", ToggleDelay, glp, TRUE, updated, 0))
  IN  /\ faces' = updated
      /\ timers' = PreviewEffect(ts1, updated, detecting, processing, glp)
      /\ UNCHANGED clock

\* the else branch of handleCanvasClick: a manual region at the clicked place
AddManual(spot) ==
  \E ts \in clock..MaxTs :
    LET updated == Append(faces, ManualFace(ts, spot))
        ts1 == Append(timers, Timer("previewToggle", ToggleDelay, glp, TRUE, updated, 0))
    IN  /\ clock' = ts
        /\ faces' = updated
        /\ timers' = PreviewEffect(ts1, updated, detecting, processing, glp)

\* handleCanvasClick: faces.find(...) gives the first region at the place
HandleCanvasClick(spot) ==
  /\ edits < MaxEdits
  /\ imageLoaded /\ ~detecting /\ ~processing
  /\ edits' = edits + 1
  /\ LET hit == {i \in 1..Len(faces) : faces[i].spot = spot}
     IN  IF hit # {}
           THEN ToggleFace(faces[CHOOSE i \in hit : \A j \in hit : i <= j].id)
           ELSE AddManual(spot)
  /\ UNCHANGED <<imageLoaded, selectedMethod, sensitivityLevel, processing,
                 detecting, processedBlob, livePreviewUrl, error,
                 detectionComplete, isDetectionRunningRef, glp, rfdGlp, passes,
                 commits, previews, facesLevel, sensChanged, dropped,
                 previewFailed>>

\* the method buttons' onClick (disabled while processing)
HandleMethodClick(m) ==
  /\ edits < MaxEdits
  /\ ~processing
  /\ edits' = edits + 1
  /\ selectedMethod' = m
  /\ glp' = GlpAfter(faces, m, processing)
  /\ LET ts1 == IF Len(Enabled(faces)) > 0
                  THEN Append(timers,
                              Timer("previewMethod", MethodDelay, glp, FALSE, <<>>, 0))
                  ELSE timers
     IN  timers' = IF m # selectedMethod
                     THEN PreviewEffect(ts1, faces, detecting, processing, glp')
                     ELSE ts1
  /\ UNCHANGED <<imageLoaded, faces, sensitivityLevel, processing, detecting,
                 processedBlob, livePreviewUrl, error, detectionComplete,
                 isDetectionRunningRef, rfdGlp, passes, commits, previews, clock,
                 facesLevel, sensChanged, dropped, previewFailed>>

\* resetToOriginal (shown when there is a blob or a preview; disabled while
\* detecting or processing)
ResetToOriginal ==
  /\ edits < MaxEdits
  /\ processedBlob.has \/ livePreviewUrl.has
  /\ ~processing /\ ~detecting
  /\ edits' = edits + 1
  /\ processedBlob' = NoRender
  /\ livePreviewUrl' = NoRender
  /\ faces' = EnableAll(faces)
  /\ error' = FALSE
  /\ detectionComplete' = FALSE
  /\ LET ts1 == IF imageLoaded /\ ~isDetectionRunningRef
                  THEN Append(timers,
                              Timer("resetDetect", ResetDelay,
                                    Closure(<<>>, "blur", FALSE), FALSE, <<>>,
                                    sensitivityLevel))
                  ELSE timers
     IN  timers' = PreviewEffect(ts1, faces', detecting, processing, glp)
  /\ UNCHANGED <<imageLoaded, selectedMethod, sensitivityLevel, processing,
                 detecting, isDetectionRunningRef, glp, rfdGlp, passes, commits,
                 previews, clock, facesLevel, sensChanged, dropped, previewFailed>>

\* the Apply button's onClick: applyRedaction() up to its first await
ApplyRedactionStart ==
  /\ edits < MaxEdits
  /\ Len(faces) > 0 /\ ~processing /\ ~detecting /\ Len(Enabled(faces)) > 0
  /\ edits' = edits + 1
  /\ processing' = TRUE
  /\ error' = FALSE
  /\ commits' = Append(commits, [faces |-> Enabled(faces), method |-> selectedMethod,
                                 stage |-> "render"])
  /\ glp' = GlpAfter(faces, selectedMethod, TRUE)
  /\ timers' = PreviewEffect(timers, faces, detecting, TRUE, glp')
  /\ UNCHANGED <<imageLoaded, faces, selectedMethod, sensitivityLevel, detecting,
                 processedBlob, livePreviewUrl, detectionComplete,
                 isDetectionRunningRef, rfdGlp, passes, previews, clock,
                 facesLevel, sensChanged, dropped, previewFailed>>

\* the Apply button's onClick run twice by the handler of one render: the
\* second applyRedaction() reads the `processing` of that render, in which
\* setProcessing(true) of the first is not yet applied, and passes the guard
ApplyRedactionTwice ==
  /\ edits < MaxEdits
  /\ Len(faces) > 0 /\ ~processing /\ ~detecting /\ Len(Enabled(faces)) > 0
  /\ edits' = edits + 1
  /\ processing' = TRUE
  /\ error' = FALSE
  /\ LET commit == [faces |-> Enabled(faces), method |-> selectedMethod,
                    stage |-> "render"]
     IN  commits' = commits \o <<commit, commit>>
  /\ glp' = GlpAfter(faces, selectedMethod, TRUE)
  /\ timers' = PreviewEffect(timers, faces, detecting, TRUE, glp')
  /\ UNCHANGED <<imageLoaded, faces, selectedMethod, sensitivityLevel, detecting,
                 processedBlob, livePreviewUrl, detectionComplete,
                 isDetectionRunningRef, rfdGlp, passes, previews, clock,
                 facesLevel, sensChanged, dropped, previewFailed>>

(***************************************************************************)
(* Timers.  A timer is due when its delay has elapsed; of two due timers   *)
(* the one registered first with a delay no longer than the other's runs   *)
(* first.                                                                  *)
(***************************************************************************)
CanFire(i) ==
  /\ timers[i].rem = 0
  /\ \A j \in 1..(i - 1) : ~(timers[j].rem = 0 /\ timers[j].delay <= timers[i].delay)

\* 100 ms pass: possible only when no timer is due
Tick ==
  /\ timers # <<>>
  /\ \A i \in 1..Len(timers) : timers[i].rem > 0
  /\ timers' = [i \in 1..Len(timers) |-> [timers[i] EXCEPT !.rem = @ - 1]]
  /\ UNCHANGED <<imageLoaded, faces, selectedMethod, sensitivityLevel, processing,
                 detecting, processedBlob, livePreviewUrl, error,
                 detectionComplete, isDetectionRunningRef, glp, rfdGlp, passes,
                 commits, previews, clock, edits, facesLevel, sensChanged,
                 dropped, previewFailed>>

(***************************************************************************)
(* runFaceDetection(sensitivity)                                           *)
(***************************************************************************)
\* a guard that does not consult the ref
RunFaceDetectionGuardNoRef == ~imageLoaded

\* if (isDetectionRunningRef.current || !imageLoaded || !processorRef.current) return;
RunFaceDetectionGuard == isDetectionRunningRef \/ ~imageLoaded

\* a detection timer fires: runFaceDetection up to `await detectFaces(...)`;
\* loaded: whether the processor has a detector model for this pass
RunFaceDetection(i, loaded) ==
  /\ i \in 1..Len(timers)
  /\ timers[i].kind \in DetectKinds
  /\ CanFire(i)
  /\ IF RunFaceDetectionGuard
       THEN /\ dropped' = dropped + 1
            /\ timers' = RemoveAt(timers, i)
            /\ UNCHANGED <<isDetectionRunningRef, detecting, error, passes>>
       ELSE /\ isDetectionRunningRef' = TRUE
            /\ detecting' = TRUE
            /\ error' = FALSE
            /\ passes' = Append(passes, [sens |-> timers[i].sens, models |-> loaded])
            /\ timers' = PreviewEffect(RemoveAt(timers, i), faces, TRUE, processing, glp)
            /\ UNCHANGED dropped
  /\ UNCHANGED <<imageLoaded, faces, selectedMethod, sensitivityLevel, processing,
                 processedBlob, livePreviewUrl, detectionComplete, glp, rfdGlp,
                 commits, previews, clock, edits, facesLevel, sensChanged,
                 previewFailed>>

\* detectFaces resolved with k regions ([] from its early returns when no
\* model is loaded): the rest of the try block, then finally
DetectResolved(i, k) ==
  /\ i \in 1..Len(passes)
  /\ passes[i].models \/ k = 0
  /\ LET fs == FacesWithIds(k)
         ts1 == IF k > 0
                  THEN Append(timers,
                              Timer("previewDetect", AutoPreviewDelay, rfdGlp, TRUE, fs, 0))
                  ELSE timers
     IN  /\ faces' = fs
         /\ timers' = PreviewEffect(ts1, fs, FALSE, processing, glp)
  /\ detectionComplete' = TRUE
  /\ facesLevel' = passes[i].sens
  /\ detecting' = FALSE
  /\ isDetectionRunningRef' = FALSE
  /\ passes' = RemoveAt(passes, i)
  /\ UNCHANGED <<imageLoaded, selectedMethod, sensitivityLevel, processing,
                 processedBlob, livePreviewUrl, error, glp, rfdGlp, commits,
                 previews, clock, edits, sensChanged, dropped, previewFailed>>

\* detectFaces rejected (a throw past its early returns): the catch block,
\* then finally
DetectRejected(i) ==
  /\ i \in 1..Len(passes)
  /\ passes[i].models
  /\ error' = TRUE
  /\ faces' = <<>>
  /\ facesLevel' = passes[i].sens
  /\ detecting' = FALSE
  /\ isDetectionRunningRef' = FALSE
  /\ passes' = RemoveAt(passes, i)
  /\ timers' = PreviewEffect(timers, <<>>, FALSE, processing, glp)
  /\ UNCHANGED <<imageLoaded, selectedMethod, sensitivityLevel, processing,
                 processedBlob, livePreviewUrl, detectionComplete, glp, rfdGlp,
                 commits, previews, clock, edits, sensChanged, dropped,
                 previewFailed>>

(***************************************************************************)
(* generateLivePreview(facesToPreview = faces)                             *)
(***************************************************************************)
\* a preview timer fires: generateLivePreview up to `await createLivePreview(...)`,
\* run with the values its closure captured
GenerateLivePreview(i) ==
  /\ i \in 1..Len(timers)
  /\ timers[i].kind \in PreviewKinds
  /\ CanFire(i)
  /\ timers' = RemoveAt(timers, i)
  /\ LET cl == timers[i].glp
         facesToPreview == IF timers[i].hasArg THEN timers[i].arg ELSE cl.faces
         enabledFaces == Enabled(facesToPreview)
     IN  IF cl.processing
           THEN UNCHANGED <<livePreviewUrl, previews>>
           ELSE IF Len(enabledFaces) = 0
                  THEN /\ livePreviewUrl' = NoRender
                       /\ UNCHANGED previews
                  ELSE /\ previews' = Append(previews, Rendered(enabledFaces, cl.method))
                       /\ UNCHANGED livePreviewUrl
  /\ UNCHANGED <<imageLoaded, faces, selectedMethod, sensitivityLevel, processing,
                 detecting, processedBlob, error, detectionComplete,
                 isDetectionRunningRef, glp, rfdGlp, passes, commits, clock, edits,
                 facesLevel, sensChanged, dropped, previewFailed>>

\* createLivePreview resolved: setLivePreviewUrl(previewDataUrl)
PreviewResolved(i) ==
  /\ i \in 1..Len(previews)
  /\ livePreviewUrl' = previews[i]
  /\ previews' = RemoveAt(previews, i)
  /\ UNCHANGED <<imageLoaded, faces, selectedMethod, sensitivityLevel, processing,
                 detecting, processedBlob, error, detectionComplete,
                 isDetectionRunningRef, glp, rfdGlp, timers, passes, commits, clock,
                 edits, facesLevel, sensChanged, dropped, previewFailed>>

\* createLivePreview rejected: the catch block only logs
PreviewRejected(i) ==
  /\ i \in 1..Len(previews)
  /\ previews' = RemoveAt(previews, i)
  /\ previewFailed' = TRUE
  /\ UNCHANGED <<imageLoaded, faces, selectedMethod, sensitivityLevel, processing,
                 detecting, processedBlob, livePreviewUrl, error,
                 detectionComplete, isDetectionRunningRef, glp, rfdGlp, timers,
                 passes, commits, clock, edits, facesLevel, sensChanged, dropped>>

(***************************************************************************)
(* applyRedaction(): the continuations of the Apply click                  *)
(***************************************************************************)
\* processor.applyRedaction resolved with a blob: setProcessedBlob(cleanBlob),
\* then `await verifyMetadataRemoval(...)`
CommitResolved(i) ==
  /\ i \in 1..Len(commits)
  /\ commits[i].stage = "render"
  /\ processedBlob' = Rendered(commits[i].faces, commits[i].method)
  /\ commits' = [commits EXCEPT ![i].stage = "verify"]
  /\ UNCHANGED <<imageLoaded, faces, selectedMethod, sensitivityLevel, processing,
                 detecting, livePreviewUrl, error, detectionComplete,
                 isDetectionRunningRef, glp, rfdGlp, timers, passes, previews,
                 clock, edits, facesLevel, sensChanged, dropped, previewFailed>>

\* verifyMetadataRemoval resolved: setMetadataVerification, then finally
CommitVerified(i) ==
  /\ i \in 1..Len(commits)
  /\ commits[i].stage = "verify"
  /\ processing' = FALSE
  /\ commits' = RemoveAt(commits, i)
  /\ glp' = GlpAfter(faces, selectedMethod, FALSE)
  /\ timers' = IF processing
                 THEN PreviewEffect(timers, faces, detecting, FALSE, glp')
                 ELSE timers
  /\ UNCHANGED <<imageLoaded, faces, selectedMethod, sensitivityLevel, detecting,
                 processedBlob, livePreviewUrl, error, detectionComplete,
                 isDetectionRunningRef, rfdGlp, passes, previews, clock, edits,
                 facesLevel, sensChanged, dropped, previewFailed>>

\* processor.applyRedaction rejected (or gave an empty blob): catch, then finally
CommitRejected(i) ==
  /\ i \in 1..Len(commits)
  /\ commits[i].stage = "render"
  /\ error' = TRUE
  /\ processing' = FALSE
  /\ commits' = RemoveAt(commits, i)
  /\ glp' = GlpAfter(faces, selectedMethod, FALSE)
  /\ timers' = IF processing
                 THEN PreviewEffect(timers, faces, detecting, FALSE, glp')
                 ELSE timers
  /\ UNCHANGED <<imageLoaded, faces, selectedMethod, sensitivityLevel, detecting,
                 processedBlob, livePreviewUrl, detectionComplete,
                 isDetectionRunningRef, rfdGlp, passes, previews, clock, edits,
                 facesLevel, sensChanged, dropped, previewFailed>>

(***************************************************************************)
(* The session.                                                            *)
(***************************************************************************)
(***************************************************************************)
(* ImageProcessor: initializeModels and detectFaces                        *)
(***************************************************************************)
ModelKeys == {"mediapipe-full", "mediapipe-short"}

NewCall == [pc |-> "idle", skipped |-> FALSE, found |-> 0]

\* the state after `new ImageProcessor()`: initializeModels() has been started
ProcInit ==
  /\ initializationPromise = "pending"
  /\ isInitialized = FALSE
  /\ models = {}
  /\ faceMeshDetector = FALSE
  /\ isProcessing = FALSE
  /\ calls = [c \in 1..MaxCalls |-> NewCall]

\* initializeModels() settles: the backend came up or not, and each model
\* loaded or not (Promise.allSettled); it throws when no detector loaded
InitializeModels(backendOk, loaded, mesh) ==
  /\ initializationPromise = "pending"
  /\ IF backendOk
       THEN /\ models' = loaded
            /\ faceMeshDetector' = mesh
            /\ isInitialized' = (loaded # {})
            /\ initializationPromise' = IF loaded # {} THEN "resolved" ELSE "rejected"
       ELSE /\ isInitialized' = FALSE
            /\ initializationPromise' = "rejected"
            /\ UNCHANGED <<models, faceMeshDetector>>
  /\ UNCHANGED <<isProcessing, calls>>

\* detectFaces up to `await this.initializationPromise`:
\* if (this.isProcessing) return [];
DetectFacesEntry(c) ==
  /\ calls[c].pc = "idle"
  /\ IF isProcessing
       THEN calls' = [calls EXCEPT ![c] = [pc |-> "done", skipped |-> TRUE, found |-> 0]]
       ELSE calls' = [calls EXCEPT ![c].pc = "awaitInit"]
  /\ UNCHANGED <<initializationPromise, isInitialized, models, faceMeshDetector,
                 isProcessing>>

\* detectFaces after the await, up to the image load: the three early returns,
\* else this.isProcessing = true
DetectFacesAfterInit(c) ==
  /\ calls[c].pc = "awaitInit"
  /\ initializationPromise # "pending"
  /\ IF initializationPromise = "rejected" \/ ~isInitialized \/ models = {}
       THEN /\ calls' = [calls EXCEPT ![c].pc = "done"]
            /\ UNCHANGED isProcessing
       ELSE /\ calls' = [calls EXCEPT ![c].pc = "loading"]
            /\ isProcessing' = TRUE
  /\ UNCHANGED <<initializationPromise, isInitialized, models, faceMeshDetector>>

\* img.onload with a usable image: advancedEnsembleDetection starts
DetectFacesImageLoaded(c) ==
  /\ calls[c].pc = "loading"
  /\ calls' = [calls EXCEPT ![c].pc = "pipeline"]
  /\ UNCHANGED <<initializationPromise, isInitialized, models, faceMeshDetector,
                 isProcessing>>

\* a failed image load that returns without the finally block
DetectFacesImageFailedNoFinally(c) ==
  /\ calls[c].pc = "loading"
  /\ calls' = [calls EXCEPT ![c].pc = "done"]
  /\ UNCHANGED <<initializationPromise, isInitialized, models, faceMeshDetector,
                 isProcessing>>

\* img.onerror, or img.onload with a zero dimension: resolve([]), then finally
DetectFacesImageFailed(c) ==
  /\ calls[c].pc = "loading"
  /\ calls' = [calls EXCEPT ![c].pc = "done"]
  /\ isProcessing' = FALSE
  /\ UNCHANGED <<initializationPromise, isInitialized, models, faceMeshDetector>>

\* advancedEnsembleDetection settles (with k regions; a throw resolves []),
\* then finally: this.isProcessing = false
DetectFacesSettled(c, k) ==
  /\ calls[c].pc = "pipeline"
  /\ calls' = [calls EXCEPT ![c] = [pc |-> "done", skipped |-> FALSE, found |-> k]]
  /\ isProcessing' = FALSE
  /\ UNCHANGED <<initializationPromise, isInitialized, models, faceMeshDetector>>

\* dispose(): models.clear(); isInitialized = false
Dispose ==
  /\ isInitialized \/ models # {}
  /\ models' = {}
  /\ isInitialized' = FALSE
  /\ UNCHANGED <<initializationPromise, faceMeshDetector, isProcessing, calls>>

(***************************************************************************)
(* ImageProcessor.applyRedaction on the shared canvas.  A pixel holds a    *)
(* record: [k |-> "rgb"] a plain colour v, "blurred" the blur of content   *)
(* v, "soft" a fill blended into content v by a blur filter left on the    *)
(* context.  by[p] names the last drawing call that covered pixel p.       *)
(***************************************************************************)
maxPreviewSize == 800

maxCanvasSize == 4096

pixelSizeMin == 6

pixelSizeMax == 16

Min(a, b) == IF a < b THEN a ELSE b

Max(a, b) == IF a > b THEN a ELSE b

Rgb(v) == [k |-> "rgb", v |-> v]

\* ctx.fillStyle = '#000000'
Black == Rgb(0)

Pix(w, h) == (0..(w - 1)) \X (0..(h - 1))

Rect(x, y, w, h) == [x |-> x, y |-> y, width |-> w, height |-> h]

InRect(p, r) ==
  /\ r.x <= p[1] /\ p[1] < r.x + r.width
  /\ r.y <= p[2] /\ p[2] < r.y + r.height

\* image sizes and face rectangles the calls are made with
RImages == {[width |-> 8, height |-> 2], [width |-> 3, height |-> 3],
            [width |-> 0, height |-> 2]}

RFaceSet == {Rect(0, 0, 8, 2), Rect(1, 0, 2, 2), Rect(-1, 0, 3, 1),
             Rect(2, 1, 4, 4), Rect(9, 0, 2, 2), Rect(2, 0, 0, 2)}

RFaceLists == UNION {[1..n -> RFaceSet] : n \in 0..MaxRFaces}

\* the pixels of the decoded image: every pixel its own colour
ImagePixels(w, h) == [p \in Pix(w, h) |-> Rgb(1 + p[1] + w * p[2])]

\* the canvas of a new ImageProcessor: nothing drawn yet
RenderInit ==
  /\ canvas = [width |-> 0, height |-> 0, px |-> <<>>, by |-> <<>>, filter |-> "none"]
  /\ rImg = [width |-> 0, height |-> 0]
  /\ rFaces = <<>>
  /\ rMethod = "blur"
  /\ rOutcome = "none"
  /\ rTrace = <<>>

\* a render in progress: the canvas, the drawing calls made so far (n), the
\* calls that throw (F), and whether an exception is propagating (exc)
NewRender(c, F) == [c |-> c, n |-> 0, F |-> F, exc |-> FALSE]

Caught(r) == [r EXCEPT !.exc = FALSE]

\* ctx.fillRect(x, y, w, h) with fillStyle `colour`
FillRect(r, rect, colour, who) ==
  IF (r.n + 1) \in r.F
    THEN [r EXCEPT !.n = @ + 1, !.exc = TRUE]
    ELSE [r EXCEPT !.n = @ + 1,
            !.c.px = [p \in DOMAIN @ |->
                        IF InRect(p, rect)
                          THEN IF r.c.filter = "none" THEN colour
                               ELSE [k |-> "soft", v |-> @[p].v]
                          ELSE @[p]],
            !.c.by = [p \in DOMAIN @ |-> IF InRect(p, rect) THEN who ELSE @[p]]]

\* ctx.drawImage(canvas, x, y, w, h, x, y, w, h) with filter blur(8px)
DrawBlurred(r, rect) ==
  IF (r.n + 1) \in r.F
    THEN [r EXCEPT !.n = @ + 1, !.exc = TRUE]
    ELSE [r EXCEPT !.n = @ + 1,
            !.c.px = [p \in DOMAIN @ |->
                        IF InRect(p, rect) THEN [k |-> "blurred", v |-> @[p].v]
                        ELSE @[p]],
            !.c.by = [p \in DOMAIN @ |-> IF InRect(p, rect) THEN "blur" ELSE @[p]]]

applyBlackoutWithContext(r, rect) == FillRect(r, rect, Black, "blackout")

RECURSIVE BlurPasses(_, _, _)
\* for (let i = 0; i < 3; i++) { ctx.filter = 'blur(8px)'; ctx.drawImage(...) }
\* ctx.filter = 'none'
BlurPasses(r, rect, i) ==
  IF i = 3 THEN [r EXCEPT !.c.filter = "none"]
  ELSE LET r1 == DrawBlurred([r EXCEPT !.c.filter = "blur"], rect)
       IN  IF r1.exc THEN r1 ELSE BlurPasses(r1, rect, i + 1)

applyAdvancedBlurWithContext(r, rect) ==
  LET r1 == BlurPasses(r, rect, 0)
  IN  IF r1.exc THEN applyBlackoutWithContext(Caught(r1), rect) ELSE r1

pixelSize(rect) ==
  Max(pixelSizeMin, Min(pixelSizeMax, Min(rect.width, rect.height) \div 8))

\* a sample point one block further on: the far corner of the block at
\* (px, py), held inside the rectangle
SampleNextBlock(rect, px, py) ==
  <<Min(rect.x + px + pixelSize(rect), rect.x + rect.width - 1),
    Min(rect.y + py + pixelSize(rect), rect.y + rect.height - 1)>>

\* sampleX, sampleY of the block at (px, py)
SamplePoint(rect, px, py) ==
  <<Min(rect.x + px + pixelSize(rect) \div 2, rect.x + rect.width - 1),
    Min(rect.y + py + pixelSize(rect) \div 2, rect.y + rect.height - 1)>>

\* one block of the pixelation grid: sample its centre, fill it; on a throw
\* fill it black
PixelateBlock(r, rect, px, py) ==
  LET ps == pixelSize(rect)
      sample == SamplePoint(rect, px, py)
      block == Rect(rect.x + px, rect.y + py,
                    Min(ps, rect.width - px), Min(ps, rect.height - py))
      read == [r EXCEPT !.n = @ + 1, !.exc = (r.n + 1) \in r.F]
      r1 == IF read.exc THEN read
            ELSE FillRect(read, block, Rgb(r.c.px[sample].v), "pixelate")
  IN  IF r1.exc THEN FillRect(Caught(r1), block, Black, "blackout") ELSE r1

RECURSIVE PixelateFrom(_, _, _, _)
PixelateFrom(r, rect, px, py) ==
  IF py >= rect.height THEN r
  ELSE IF px >= rect.width THEN PixelateFrom(r, rect, 0, py + pixelSize(rect))
  ELSE LET r1 == PixelateBlock(r, rect, px, py)
       IN  IF r1.exc THEN r1 ELSE PixelateFrom(r1, rect, px + pixelSize(rect), py)

applyPixelationWithContext(r, rect) == PixelateFrom(r, rect, 0, 0)

\* the rectangle applyRedactionToFaceWithContext redacts
Clamped(face, cw, ch) ==
  LET cx == Max(0, Min(face.x, cw - 1))
      cy == Max(0, Min(face.y, ch - 1))
  IN  Rect(cx, cy, Min(face.width, cw - cx), Min(face.height, ch - cy))

\* a catch block that swallows the exception and draws nothing
RedactionFallbackNone(r, rect) == Caught(r)

\* catch (error) { this.applyBlackoutWithContext(...) }
RedactionFallback(r, rect) == applyBlackoutWithContext(Caught(r), rect)

applyRedactionToFaceWithContext(r, face, method) ==
  LET rect == Clamped(face, r.c.width, r.c.height)
      r1 == CASE method = "blur" -> applyAdvancedBlurWithContext(r, rect)
              [] method = "pixelate" -> applyPixelationWithContext(r, rect)
              [] method = "blackout" -> applyBlackoutWithContext(r, rect)
  IN  IF rect.width <= 0 \/ rect.height <= 0 THEN r
      ELSE IF r1.exc THEN RedactionFallback(r1, rect) ELSE r1

\* scaledFace: the face in canvas coordinates, floored
ScaledFace(face, c, img) ==
  Rect((face.x * c.width) \div img.width,
       (face.y * c.height) \div img.height,
       (face.width * c.width) \div img.width,
       (face.height * c.height) \div img.height)

RECURSIVE RedactFaces(_, _, _, _)
\* faces.forEach(face => applyRedactionToFaceWithContext(ctx, canvas,
\* scaledFace, method)); a throw ends the loop
RedactFaces(r, fs, method, img) ==
  IF fs = <<>> \/ r.exc THEN r
  ELSE RedactFaces(applyRedactionToFaceWithContext(r, ScaledFace(Head(fs), r.c, img), method),
                   Tail(fs), method, img)

RECURSIVE RedactSteps(_, _, _, _)
\* the canvas after each call of the forEach callback, in order
RedactSteps(r, fs, method, img) ==
  IF fs = <<>> \/ r.exc THEN <<>>
  ELSE LET r1 == applyRedactionToFaceWithContext(r, ScaledFace(Head(fs), r.c, img), method)
       IN  <<r1.c>> \o RedactSteps(r1, Tail(fs), method, img)

\* the canvas size applyRedaction picks for an image
CanvasSize(img) ==
  LET m == Max(img.width, img.height)
  IN  IF m > maxCanvasSize
        THEN [width |-> (img.width * maxCanvasSize) \div m,
              height |-> (img.height * maxCanvasSize) \div m]
        ELSE img

\* the size of the preview canvas: the image, scaled down to maxPreviewSize
PreviewSize(img) ==
  LET m == Max(img.width, img.height)
  IN  IF m > maxPreviewSize
        THEN [width |-> (img.width * maxPreviewSize) \div m,
              height |-> (img.height * maxPreviewSize) \div m]
        ELSE img

\* images above both limits, between them and below both, and faces in them
ScaleImages == {[width |-> 8192, height |-> 4096], [width |-> 1600, height |-> 1200],
                [width |-> 600, height |-> 400]}

ScaleFaces ==
  {Rect(x, y, w, h) : x \in {0, 1, 101}, y \in {0, 1}, w \in {1, 2, 101}, h \in {2, 101}}

\* no face scaled
ScaleIdle ==
  /\ sImg = [width |-> 0, height |-> 0]
  /\ sFace = Rect(0, 0, 0, 0)
  /\ sKind = "export"
  /\ sSurface = [width |-> 0, height |-> 0]
  /\ sRect = Rect(0, 0, 0, 0)
  /\ sDone = FALSE

\* a face of a decoded image is about to be drawn on a surface
ScaleInit ==
  /\ sImg \in ScaleImages
  /\ sFace \in ScaleFaces
  /\ sKind \in {"preview", "export"}
  /\ sSurface = [width |-> 0, height |-> 0]
  /\ sRect = Rect(0, 0, 0, 0)
  /\ sDone = FALSE

\* img.onload of createLivePreview or of applyRedaction, up to scaledFace
ScaleFace ==
  /\ ~sDone
  /\ sSurface' = IF sKind = "preview" THEN PreviewSize(sImg) ELSE CanvasSize(sImg)
  /\ sRect' = ScaledFace(sFace, sSurface', sImg)
  /\ sDone' = TRUE
  /\ UNCHANGED <<sImg, sFace, sKind>>

\* this.canvas.width = ..; this.canvas.height = ..: a cleared bitmap and a
\* context back in its default state
ResizedCanvas(size) ==
  [width |-> size.width, height |-> size.height,
   px |-> [p \in Pix(size.width, size.height) |-> [k |-> "clear", v |-> 0]],
   by |-> [p \in Pix(size.width, size.height) |-> "none"],
   filter |-> "none"]

\* this.ctx.drawImage(img, 0, 0, canvasWidth, canvasHeight)
DrawnImage(c) ==
  [c EXCEPT !.px = ImagePixels(c.width, c.height),
            !.by = [p \in DOMAIN @ |-> "image"]]

\* applyRedaction(imageFile, faces, method) up to img.src = ...
ApplyRedaction(img, fs, method) ==
  /\ rOutcome = "none"
  /\ rImg' = img
  /\ rFaces' = fs
  /\ rMethod' = method
  /\ rOutcome' = "loading"
  /\ UNCHANGED <<canvas, rTrace>>

\* img.onload: size the canvas, draw the image, redact each face, toBlob.
\* drawOk: the first drawImage does not throw; F: the later drawing calls
\* that throw; blobOk: toBlob hands a non-empty blob to its callback
ApplyRedactionOnload(drawOk, F, blobOk) ==
  /\ rOutcome = "loading"
  /\ IF rImg.width = 0 \/ rImg.height = 0
       THEN /\ rOutcome' = "rejected"
            /\ UNCHANGED <<canvas, rTrace>>
       ELSE LET c0 == ResizedCanvas(CanvasSize(rImg))
                r == RedactFaces(NewRender(DrawnImage(c0), F), rFaces, rMethod, rImg)
            IN  IF ~drawOk
                  THEN /\ canvas' = c0
                       /\ rTrace' = <<>>
                       /\ rOutcome' = "rejected"
                  ELSE /\ canvas' = r.c
                       /\ rTrace' = RedactSteps(NewRender(DrawnImage(c0), F), rFaces,
                                                rMethod, rImg)
                       /\ rOutcome' = IF r.exc \/ ~blobOk THEN "rejected"
                                      ELSE "resolved"
  /\ UNCHANGED <<rImg, rFaces, rMethod>>

\* img.onerror
ApplyRedactionOnerror ==
  /\ rOutcome = "loading"
  /\ rOutcome' = "rejected"
  /\ UNCHANGED <<canvas, rImg, rFaces, rMethod, rTrace>>

(***************************************************************************)
(* ImageProcessor.advancedEnsembleDetection.  A prediction is what a       *)
(* detector reports for one strategy: a box in the coordinates of the      *)
(* image it was given and a score (0 stands for an absent score).          *)
(***************************************************************************)
One == 10000 * 10000

Full == "MediaPipe Full"

Short == "MediaPipe Short"

\* the image of the pass
FusionImage == [width |-> 200, height |-> 200]

Sensitivities == {0, 60, 100, 200}

Strategies == <<"model-full", "model-short", "scale-0.5", "tile", "preprocess">>

StrategyRank(st) == CHOOSE i \in 1..Len(Strategies) : Strategies[i] = st

PredBoxes == {Rect(43, 0, 157, 120), Rect(44, 0, 156, 120),
              Rect(0, 0, 120, 120), Rect(10, 10, 40, 50)}

PredScores == {0, 50, 95}

Predictions == [box : PredBoxes, score : PredScores, strategy : {"model-full", "model-short", "scale-0.5", "tile", "preprocess"}]

\* the strategies run in a fixed order, so their predictions arrive in it
PredictionLists ==
  {ps \in UNION {[1..n -> Predictions] : n \in 0..MaxPreds} :
     \A i, j \in DOMAIN ps :
        i < j => StrategyRank(ps[i].strategy) <= StrategyRank(ps[j].strategy)}

\* a crowd: n small faces on a grid, no two overlapping, each reported by
\* MediaPipe Full without a score
CrowdPredictions(n) ==
  [i \in 1..n |-> [box |-> Rect(10 * ((i - 1) % 20), 10 * ((i - 1) \div 20), 4, 4),
                   score |-> 0, strategy |-> "model-full"]]

CrowdSizes == {200, 201}

\* the detector models found loaded, and the invocation that throws
LoadedModels == {{Full, Short}, {Short}}

Throwers == {"none", "tile"}

\* boxes FaceMesh may report, as [xMin, yMin, xMax, yMax]
LandmarkBoxes == {[xMin |-> 40, yMin |-> 0, xMax |-> 200, yMax |-> 120],
                  [xMin |-> 20, yMin |-> 20, xMax |-> 100, yMax |-> 120]}

\* getModelWeight, in hundredths
getModelWeight(modelName, sens) ==
  IF modelName = Full THEN (IF sens > 70 THEN 120 ELSE 100)
  ELSE IF modelName = Short THEN (IF sens < 40 THEN 110 ELSE 90)
  ELSE 100

\* getScaleWeight for the scale 0.5, in hundredths
getScaleWeight(sens) == IF sens > 70 THEN 110 ELSE 100

selectBestModelForTile(sens) == IF sens > 70 THEN Full ELSE Short

\* getTileWeight, in hundredths
getTileWeight(width, height, sens) ==
  IF sens > 70 /\ width * height < 150000 THEN 115 ELSE 100

\* whether a strategy asks the detector at all at this sensitivity:
\* the scale 0.5 is used above 0.7 only, preprocessing above 0.5 only
StrategyRuns(st, sens) ==
  CASE st = "scale-0.5" -> sens > 70
    [] st = "preprocess" -> sens > 50
    [] OTHER -> TRUE

\* the model a strategy hands to detectWithSpecificModel
StrategyModel(st, sens) ==
  CASE st = "model-full" -> Full
    [] st = "model-short" -> Short
    [] st = "scale-0.5" -> Full
    [] st = "tile" -> selectBestModelForTile(sens)
    [] st = "preprocess" -> IF sens > 80 THEN Full ELSE Short

\* the factor a strategy applies to the detector's confidence, in hundredths
StrategyWeight(st, sens) ==
  CASE st = "model-full" -> getModelWeight(Full, sens)
    [] st = "model-short" -> getModelWeight(Short, sens)
    [] st = "scale-0.5" -> getScaleWeight(sens)
    [] st = "tile" -> getTileWeight(FusionImage.width, FusionImage.height, sens)
    [] st = "preprocess" -> 90

\* convertPredictionsToFaces keeps confidence >= max(0.1, 0.5 - 0.35 s),
\* with confidence = prediction.score || 0.8
PredConfidence(p) == IF p.score = 0 THEN 80 ELSE p.score

PassesDetectorThreshold(p, sens) ==
  PredConfidence(p) * 100 >= Max(1000, 5000 - 35 * sens)

\* the candidate a strategy makes of a prediction: coordinates mapped back
\* to the image (x / 0.5 for the scale 0.5), confidence times the weight
Candidate(p, sens) ==
  LET k == IF p.strategy = "scale-0.5" THEN 2 ELSE 1
  IN  [x |-> k * p.box.x, y |-> k * p.box.y,
       width |-> k * p.box.width, height |-> k * p.box.height,
       confidence |-> PredConfidence(p) * StrategyWeight(p.strategy, sens) * 10000,
       model |-> StrategyModel(p.strategy, sens),
       landmarks |-> FALSE]

\* an invocation that returns whatever the detector reports
DetectorAlwaysReturns(st, sens, loaded, thrower) == TRUE

\* detectWithSpecificModel hands back the detector's predictions: the model
\* is loaded and estimateFaces does not throw (else it returns [])
DetectorReturns(st, sens, loaded, thrower) ==
  StrategyModel(st, sens) \in loaded /\ st # thrower

\* the four detection strategies of advancedEnsembleDetection
CollectCandidates(ps, sens, loaded, thrower) ==
  LET kept == SelectSeq(ps, LAMBDA p : StrategyRuns(p.strategy, sens)
                                        /\ DetectorReturns(p.strategy, sens, loaded, thrower)
                                        /\ PassesDetectorThreshold(p, sens))
  IN  [i \in 1..Len(kept) |-> Candidate(kept[i], sens)]

\* calculateOverlap(candidate, landmark.box) > 0.3
OverlapAboveThreshold(c, b) ==
  LET x1 == Max(c.x, b.xMin)
      y1 == Max(c.y, b.yMin)
      x2 == Min(c.x + c.width, b.xMax)
      y2 == Min(c.y + c.height, b.yMax)
      intersection == (x2 - x1) * (y2 - y1)
      union == c.width * c.height + (b.xMax - b.xMin) * (b.yMax - b.yMin)
                 - intersection
  IN  IF x2 <= x1 \/ y2 <= y1 THEN FALSE
      ELSE intersection * 10 > 3 * union

findMatchingLandmark(c, lms) == \E b \in lms : OverlapAboveThreshold(c, b)

\* a boost without the cap at 1.0
ValidateUncapped(c, lms) ==
  IF \E b \in lms : OverlapAboveThreshold(c, b)
    THEN [c EXCEPT !.confidence = (@ \div 10) * 11, !.landmarks = TRUE]
    ELSE c

\* the map of landmarkGuidedValidation
ValidateCandidate(c, lms) ==
  IF findMatchingLandmark(c, lms)
    THEN [c EXCEPT !.confidence = Min(One, (@ \div 10) * 11), !.landmarks = TRUE]
    ELSE c

\* the predicate of advancedQualityFilter
\* a filter whose size limit changes at sensitivity 0.7 itself
PassesQualityFilterAt(c, imgWidth, imgHeight, sens) ==
  LET m == Min(imgWidth, imgHeight)
      minSizeMille == IF sens >= 70 THEN 8 ELSE 15
      minConfidence == Max(One \div 10, 6 * (One \div 10) - sens * 4 * (One \div 1000))
  IN  /\ ~(c.width * 1000 < m * minSizeMille \/ c.height * 1000 < m * minSizeMille)
      /\ ~(c.width * 10 > m * 8 \/ c.height * 10 > m * 8)
      /\ ~(c.width * 10 < 4 * c.height \/ c.width * 10 > 25 * c.height)
      /\ ~(c.confidence < minConfidence)
      /\ ~(c.x < 0 \/ c.y < 0)
      /\ ~(c.x + c.width > imgWidth \/ c.y + c.height > imgHeight)

PassesQualityFilter(c, imgWidth, imgHeight, sens) ==
  LET m == Min(imgWidth, imgHeight)
      minSizeMille == IF sens > 70 THEN 8 ELSE 15
      minConfidence == Max(One \div 10, 6 * (One \div 10) - sens * 4 * (One \div 1000))
  IN  /\ ~(c.width * 1000 < m * minSizeMille \/ c.height * 1000 < m * minSizeMille)
      /\ ~(c.width * 10 > m * 8 \/ c.height * 10 > m * 8)
      /\ ~(c.width * 10 < 4 * c.height \/ c.width * 10 > 25 * c.height)
      /\ ~(c.confidence < minConfidence)
      /\ ~(c.x < 0 \/ c.y < 0)
      /\ ~(c.x + c.width > imgWidth \/ c.y + c.height > imgHeight)

advancedQualityFilter(cs, imgWidth, imgHeight, sens) ==
  SelectSeq(cs, LAMBDA c : PassesQualityFilter(c, imgWidth, imgHeight, sens))

\* the image of the calls of advancedQualityFilter on its own
FilterImage == [width |-> 300, height |-> 200]

\* boxes on both sides of each limit for that image: the smallest side
\* (3, or 1.6 above sensitivity 0.7), the largest side (160), the aspect
\* ratio (0.4 to 2.5) and the borders
FilterBoxes ==
  {Rect(0, 0, 3, 3), Rect(0, 0, 2, 2),
   Rect(0, 0, 160, 160), Rect(0, 0, 161, 100),
   Rect(0, 0, 40, 100), Rect(0, 0, 39, 100), Rect(0, 0, 100, 40), Rect(0, 0, 101, 40),
   Rect(-1, 0, 50, 50), Rect(250, 150, 50, 50), Rect(250, 151, 50, 50)}

\* confidences 0.05, 0.1, 0.32 and 0.6
FilterCandidates ==
  {[x |-> b.x, y |-> b.y, width |-> b.width, height |-> b.height,
    confidence |-> c * 1000 * 1000] : b \in FilterBoxes, c \in {5, 10, 32, 60}}

FilterSensitivities == {0, 70, 71, 200}

\* no call made
FilterIdle ==
  /\ fCandidates = <<>>
  /\ fSensitivity = 60
  /\ fResult = <<>>
  /\ fDone = FALSE

\* a list of candidates is about to be filtered
FilterInit ==
  /\ fCandidates \in UNION {[1..n -> FilterCandidates] : n \in 0..MaxFCands}
  /\ fSensitivity \in FilterSensitivities
  /\ fResult = <<>>
  /\ fDone = FALSE

\* this.advancedQualityFilter(candidates, img.width, img.height, sensitivity)
AdvancedQualityFilter ==
  /\ ~fDone
  /\ fResult' = advancedQualityFilter(fCandidates, FilterImage.width,
                                      FilterImage.height, fSensitivity)
  /\ fDone' = TRUE
  /\ UNCHANGED <<fCandidates, fSensitivity>>

\* intersection / area1: the overlap measured against the first box only
OverlapOfFirst(b1, b2) ==
  LET x1 == Max(b1.x, b2.x)
      y1 == Max(b1.y, b2.y)
      x2 == Min(b1.x + b1.width, b2.x + b2.width)
      y2 == Min(b1.y + b1.height, b2.y + b2.height)
  IN  IF x2 <= x1 \/ y2 <= y1 THEN <<0, 1>>
      ELSE <<(x2 - x1) * (y2 - y1), b1.width * b1.height>>

\* calculateIoU as the pair <<intersection, union>>; <<0, 1>> when disjoint
calculateIoU(b1, b2) ==
  LET x1 == Max(b1.x, b2.x)
      y1 == Max(b1.y, b2.y)
      x2 == Min(b1.x + b1.width, b2.x + b2.width)
      y2 == Min(b1.y + b1.height, b2.y + b2.height)
      intersection == (x2 - x1) * (y2 - y1)
  IN  IF x2 <= x1 \/ y2 <= y1 THEN <<0, 1>>
      ELSE <<intersection,
             b1.width * b1.height + b2.width * b2.height - intersection>>

\* the rectangles calculateIoU is tried on, the empty ones among them
IoUBoxes == {Rect(x, y, w, h) : x \in {0, 5, 20}, y \in {0, 5}, w \in {0, 10}, h \in {0, 10, 15}}

\* no call made
IoUIdle ==
  /\ box1 = Rect(0, 0, 0, 0)
  /\ box2 = Rect(0, 0, 0, 0)
  /\ iou12 = <<0, 1>>
  /\ iou21 = <<0, 1>>
  /\ iouDone = FALSE

\* two rectangles are about to be compared
IoUInit ==
  /\ box1 \in IoUBoxes
  /\ box2 \in IoUBoxes
  /\ iou12 = <<0, 1>>
  /\ iou21 = <<0, 1>>
  /\ iouDone = FALSE

\* this.calculateIoU(box1, box2) and this.calculateIoU(box2, box1)
CalculateIoU ==
  /\ ~iouDone
  /\ iou12' = calculateIoU(box1, box2)
  /\ iou21' = calculateIoU(box2, box1)
  /\ iouDone' = TRUE
  /\ UNCHANGED <<box1, box2>>

\* iou > t, for a threshold t given in thousandths
IoUAbove(iou, mille) == iou[1] * 1000 > mille * iou[2]

RECURSIVE SortDown(_, _)
\* the candidates whose confidence is in vals, highest first, those of equal
\* confidence in their order in cs
SortDown(cs, vals) ==
  IF vals = {} THEN <<>>
  ELSE LET v == CHOOSE x \in vals : \A y \in vals : y <= x
       IN  SelectSeq(cs, LAMBDA c : c.confidence = v) \o SortDown(cs, vals \ {v})

\* candidates.sort((a, b) => b.confidence - a.confidence), a stable sort
SortByConfidence(cs) == SortDown(cs, {cs[i].confidence : i \in 1..Len(cs)})

\* one threshold for every sensitivity
clusterThresholdLow(sens) == 500

clusterThreshold(sens) == IF sens > 70 THEN 300 ELSE 500

\* the index of the first cluster whose representative overlaps c, or 0
FirstCluster(clusters, c, sens) ==
  LET hits == {i \in 1..Len(clusters) :
                 IoUAbove(calculateIoU(c, clusters[i][1]), clusterThreshold(sens))}
  IN  IF hits = {} THEN 0 ELSE CHOOSE i \in hits : \A j \in hits : i <= j

\* one round of the loop of confidenceBasedClustering
ClusterStep(clusters, c, sens) ==
  LET i == FirstCluster(clusters, c, sens)
  IN  IF i = 0 THEN Append(clusters, <<c>>)
      ELSE [clusters EXCEPT ![i] = Append(@, c)]

RECURSIVE ClusterRange(_, _, _, _, _)
\* the rounds for cs[lo..hi], in order
ClusterRange(cs, lo, hi, clusters, sens) ==
  IF lo > hi THEN clusters
  ELSE IF lo = hi THEN ClusterStep(clusters, cs[lo], sens)
  ELSE LET mid == (lo + hi) \div 2
           first == ClusterRange(cs, lo, mid, clusters, sens)
       IN  \* the earlier rounds are done before the later ones run
           IF Len(first) = 0 THEN first
           ELSE ClusterRange(cs, mid + 1, hi, first, sens)

\* the loop of confidenceBasedClustering over the sorted candidates
BuildClusters(cs, clusters, sens) == ClusterRange(cs, 1, Len(cs), clusters, sens)

\* score = confidence, * 1.1 for a MediaPipe Full source, * 1.15 with landmarks
ClusterScore(c) ==
  LET s1 == IF c.model = Full THEN (c.confidence \div 10) * 11 ELSE c.confidence
  IN  IF c.landmarks THEN (s1 \div 100) * 115 ELSE s1

RECURSIVE BestOf(_, _)
\* scored.reduce((a, b) => a.score > b.score ? a : b), from the index i on
BestOf(cluster, i) ==
  IF i = 1 THEN cluster[1]
  ELSE LET a == BestOf(cluster, i - 1)
       IN  IF ClusterScore(a) > ClusterScore(cluster[i]) THEN a ELSE cluster[i]

RECURSIVE SumOf(_, _)
SumOf(cluster, field) ==
  IF cluster = <<>> THEN 0 ELSE Head(cluster)[field] + SumOf(Tail(cluster), field)

\* Math.round(sum / n) for n > 0
RoundedAverage(sum, n) == (2 * sum + n) \div (2 * n)

\* if (cluster.length === 1) return cluster[0]
selectSingle(cluster) == cluster[1]

selectBestFromCluster(cluster) ==
  IF Len(cluster) = 1 THEN selectSingle(cluster)
  ELSE LET best == BestOf(cluster, Len(cluster))
           n == Len(cluster)
       IN  [best EXCEPT !.x = RoundedAverage(SumOf(cluster, "x"), n),
                        !.y = RoundedAverage(SumOf(cluster, "y"), n),
                        !.width = RoundedAverage(SumOf(cluster, "width"), n),
                        !.height = RoundedAverage(SumOf(cluster, "height"), n),
                        !.confidence = Min(One, ClusterScore(best))]

confidenceBasedClustering(cs, sens) ==
  LET clusters == BuildClusters(SortByConfidence(cs), <<>>, sens)
  IN  [i \in 1..Len(clusters) |-> selectBestFromCluster(clusters[i])]

\* candidates for clustering on its own: pairs of boxes with IoU 0.4
\* (offset 30 of 70), IoU 0.5 (offset 20 of 60), and boxes far apart
KBoxes == {Rect(0, 0, 70, 70), Rect(30, 0, 70, 70), Rect(0, 0, 60, 60),
           Rect(20, 0, 60, 60), Rect(100, 0, 70, 70)}

KCandidates ==
  {[x |-> b.x, y |-> b.y, width |-> b.width, height |-> b.height,
    confidence |-> c * 1000 * 1000, model |-> mo, landmarks |-> FALSE] :
     b \in KBoxes, c \in {85, 90}, mo \in {Full, Short}}

KSensitivities == {50, 69, 70, 71, 80}

\* no call made
ClusterIdle ==
  /\ kCandidates = <<>>
  /\ kSensitivity = 60
  /\ kClusters = <<>>
  /\ kResult = <<>>
  /\ kDone = FALSE

\* a list of candidates is about to be clustered
ClusterInit ==
  /\ kCandidates \in UNION {[1..n -> KCandidates] : n \in 0..MaxKCands}
  /\ kSensitivity \in KSensitivities
  /\ kClusters = <<>>
  /\ kResult = <<>>
  /\ kDone = FALSE

\* this.confidenceBasedClustering(candidates, sensitivity)
ConfidenceBasedClustering ==
  /\ ~kDone
  /\ kClusters' = BuildClusters(SortByConfidence(kCandidates), <<>>, kSensitivity)
  /\ kResult' = confidenceBasedClustering(kCandidates, kSensitivity)
  /\ kDone' = TRUE
  /\ UNCHANGED <<kCandidates, kSensitivity>>

nmsKeepLimit == 200

resultLimit == 250

\* a threshold that ignores the sizes of the pair
nmsThresholdFlat(c, kept, sens) == IF sens > 70 THEN 250 ELSE 400

\* the threshold of adaptiveNonMaxSuppression for a pair, in thousandths
nmsThreshold(c, kept, sens) ==
  LET a1 == c.width * c.height
      a2 == kept.width * kept.height
      base == IF sens > 70 THEN 250 ELSE 400
  IN  IF 2 * Min(a1, a2) < Max(a1, a2) THEN (base * 8) \div 10 ELSE base

\* a loop that is never cut short
NmsNeverStops(keep) == FALSE

\* if (keep.length >= 200) break
NmsStops(keep) == Len(keep) >= nmsKeepLimit

\* one round of the loop of adaptiveNonMaxSuppression; after the break no
\* round runs
NmsStep(keep, c, sens) ==
  LET shouldKeep == \A i \in 1..Len(keep) :
                      ~IoUAbove(calculateIoU(c, keep[i]), nmsThreshold(c, keep[i], sens))
  IN  IF NmsStops(keep) THEN keep
      ELSE IF shouldKeep THEN Append(keep, c) ELSE keep

RECURSIVE NmsRange(_, _, _, _, _)
\* the rounds for cs[lo..hi], in order
NmsRange(cs, lo, hi, keep, sens) ==
  IF lo > hi THEN keep
  ELSE IF lo = hi THEN NmsStep(keep, cs[lo], sens)
  ELSE LET mid == (lo + hi) \div 2
           first == NmsRange(cs, lo, mid, keep, sens)
       IN  \* the earlier rounds are done before the later ones run
           IF Len(first) < Len(keep) THEN keep
           ELSE NmsRange(cs, mid + 1, hi, first, sens)

\* the loop of adaptiveNonMaxSuppression over the sorted candidates
NmsKeep(cs, keep, sens) == NmsRange(cs, 1, Len(cs), keep, sens)

adaptiveNonMaxSuppression(cs, sens) ==
  LET keep == NmsKeep(SortByConfidence(cs), <<>>, sens)
  IN  [i \in 1..Len(keep) |->
         [x |-> Max(0, keep[i].x), y |-> Max(0, keep[i].y),
          width |-> keep[i].width, height |-> keep[i].height,
          confidence |-> keep[i].confidence]]

\* candidates for suppression on its own.  Against Rect(0, 0, 170, 100) the
\* smaller Rect(0, 0, 102, 60) and the equal-sized Rect(80, 0, 170, 100) both
\* have IoU 9/25; the two 70 x 70 boxes have IoU 2/5
NmsBoxes == {Rect(0, 0, 170, 100), Rect(0, 0, 102, 60), Rect(80, 0, 170, 100),
             Rect(0, 0, 70, 70), Rect(30, 0, 70, 70), Rect(300, 0, 170, 100)}

NmsCandidates ==
  {[x |-> b.x, y |-> b.y, width |-> b.width, height |-> b.height,
    confidence |-> c * 1000 * 1000] : b \in NmsBoxes, c \in {85, 90}}

\* n candidates that overlap nowhere, of equal confidence
NmsCrowd(n) ==
  [i \in 1..n |-> [x |-> 200 * (i - 1), y |-> 0, width |-> 170, height |-> 100,
                   confidence |-> 90 * 1000 * 1000]]

NmsSensitivities == {70, 71, 100}

\* no call made
NmsIdle ==
  /\ nCandidates = <<>>
  /\ nSensitivity = 60
  /\ nResult = <<>>
  /\ nDone = FALSE

\* a list of candidates is about to go through suppression
NmsInit ==
  /\ nCandidates \in UNION {[1..n -> NmsCandidates] : n \in 0..MaxNCands}
                       \cup {NmsCrowd(n) : n \in CrowdSizes}
  /\ nSensitivity \in NmsSensitivities
  /\ nResult = <<>>
  /\ nDone = FALSE

\* this.adaptiveNonMaxSuppression(candidates, sensitivity)
AdaptiveNonMaxSuppression ==
  /\ ~nDone
  /\ nResult' = adaptiveNonMaxSuppression(nCandidates, nSensitivity)
  /\ nDone' = TRUE
  /\ UNCHANGED <<nCandidates, nSensitivity>>

\* a pass starts: an image, a sensitivity, and what the detectors will report
FusionInit ==
  /\ sensitivity \in Sensitivities
  /\ predictions \in PredictionLists \cup {CrowdPredictions(n) : n \in CrowdSizes}
  /\ available \in LoadedModels
  /\ threw \in Throwers
  /\ meshOutcome = "none"
  /\ landmarkSets = {}
  /\ allCandidates = <<>>
  /\ validatedResults = <<>>
  /\ qualityFiltered = <<>>
  /\ clustered = <<>>
  /\ finalFaces = <<>>
  /\ stage = "start"

\* strategies 1 to 4 of advancedEnsembleDetection
RunStrategies ==
  /\ stage = "start"
  /\ allCandidates' = CollectCandidates(predictions, sensitivity, available, threw)
  /\ stage' = "collected"
  /\ UNCHANGED <<sensitivity, predictions, validatedResults, qualityFiltered,
                 clustered, finalFaces, available, threw, meshOutcome, landmarkSets>>

\* strategy 5: without a FaceMesh detector, without candidates, or when
\* FaceMesh throws the candidates pass unchanged; else each is matched
\* against the landmark boxes lms
LandmarkGuidedValidation(mesh, throws, lms) ==
  /\ stage = "collected"
  /\ validatedResults' =
       IF ~mesh \/ allCandidates = <<>> \/ throws THEN allCandidates
       ELSE [i \in 1..Len(allCandidates) |-> ValidateCandidate(allCandidates[i], lms)]
  /\ meshOutcome' = IF ~mesh THEN "none" ELSE IF throws THEN "threw" ELSE "ok"
  /\ landmarkSets' = IF mesh /\ ~throws THEN lms ELSE {}
  /\ stage' = "validated"
  /\ UNCHANGED <<sensitivity, predictions, allCandidates, qualityFiltered,
                 clustered, finalFaces, available, threw>>

\* strategy 6: advancedEnsembleFusion
AdvancedEnsembleFusion ==
  /\ stage = "validated"
  /\ LET f == advancedQualityFilter(validatedResults, FusionImage.width,
                                    FusionImage.height, sensitivity)
         c == confidenceBasedClustering(f, sensitivity)
         n == adaptiveNonMaxSuppression(c, sensitivity)
     IN  IF validatedResults = <<>>
           THEN /\ qualityFiltered' = <<>>
                /\ clustered' = <<>>
                /\ finalFaces' = <<>>
           ELSE /\ qualityFiltered' = f
                /\ clustered' = c
                /\ finalFaces' = SubSeq(n, 1, Min(Len(n), resultLimit))
  /\ stage' = "fused"
  /\ UNCHANGED <<sensitivity, predictions, allCandidates, validatedResults,
                 available, threw, meshOutcome, landmarkSets>>

\* outside a detection pass the pipeline's variables stay as constructed
FusionIdle ==
  /\ sensitivity = 60
  /\ predictions = <<>>
  /\ allCandidates = <<>>
  /\ validatedResults = <<>>
  /\ qualityFiltered = <<>>
  /\ clustered = <<>>
  /\ finalFaces = <<>>
  /\ stage = "start"
  /\ available = {Full, Short}
  /\ threw = "none"
  /\ meshOutcome = "none"
  /\ landmarkSets = {}

(***************************************************************************)
(* calculateSmartZoneSize.  Sizes are fractions <<num, den>> with den > 0; *)
(* a square root is taken to the integer below it, distances in pixels and *)
(* the DPI estimate in thousandths.                                        *)
(***************************************************************************)
RECURSIVE SqrtBetween(_, _, _)
\* the largest r in lo..hi with r * r <= n
SqrtBetween(n, lo, hi) ==
  IF lo >= hi THEN lo
  ELSE LET mid == (lo + hi + 1) \div 2
       IN  IF mid * mid <= n THEN SqrtBetween(n, mid, hi)
           ELSE SqrtBetween(n, lo, mid - 1)

\* Math.floor(Math.sqrt(n)) for 0 <= n < 2^31
ISqrt(n) == SqrtBetween(n, 0, Min(n, 46340))

\* a fraction v left as it is
Unclamped(lo, hi, v) == v

\* Math.max(lo, Math.min(hi, v)) for a fraction v
ClampFraction(lo, hi, v) ==
  IF v[1] > hi * v[2] THEN <<hi, 1>>
  ELSE IF v[1] < lo * v[2] THEN <<lo, 1>>
  ELSE v

\* image sizes, click points and regions the clicks are made with
ZImages == {[width |-> 200, height |-> 200], [width |-> 3000, height |-> 2000],
            [width |-> 4000, height |-> 3000], [width |-> 30, height |-> 30]}

ZClicks(img) ==
  {0, img.width \div 4, img.width \div 2, img.width - 1}
    \X {0, img.height \div 2, img.height - 1}

ZFaceSet(img) ==
  {r \in {Rect(0, 0, 10, 10),
          Rect(img.width \div 2 - 30, img.height \div 2 - 40, 60, 80),
          Rect(img.width \div 4, img.height \div 4, img.width \div 2, img.height \div 2)} :
     /\ r.x >= 0 /\ r.x + r.width <= img.width
     /\ r.y >= 0 /\ r.y + r.height <= img.height}

ZFaceLists(img) == UNION {[1..n -> ZFaceSet(img)] : n \in 0..MaxZFaces}

\* distance < Math.min(imageSize.width, imageSize.height) * 0.3, from the
\* click to the centre of the face (squared, in doubled coordinates)
IsNearby(face, click, img) ==
  LET dx == 2 * click[1] - (2 * face.x + face.width)
      dy == 2 * click[2] - (2 * face.y + face.height)
      m == Min(img.width, img.height)
  IN  dx * dx + dy * dy <= (36 * m * m - 1) \div 100

RECURSIVE SumOfSides(_)
\* the sum of width + height over the faces
SumOfSides(fs) ==
  IF fs = <<>> THEN 0 ELSE Head(fs).width + Head(fs).height + SumOfSides(Tail(fs))

\* allSizes.sort((a, b) => a - b)[Math.floor(allSizes.length / 2)], doubled
MedianOfSides(fs) ==
  LET n == Len(fs)
      side(i) == fs[i].width + fs[i].height
      k == n \div 2
  IN  side(CHOOSE i \in 1..n :
             /\ Cardinality({j \in 1..n : side(j) < side(i)}) <= k
             /\ k < Cardinality({j \in 1..n : side(j) <= side(i)}))

\* strategy 1: the average size of the nearby faces, within [32, 200]
NearbyZoneSize(nearby) ==
  ClampFraction(32, 200, <<SumOfSides(nearby), 2 * Len(nearby)>>)

\* strategy 2: the mean of the average and the median size, within [40, 150]
GlobalZoneSize(fs) ==
  ClampFraction(40, 150, <<SumOfSides(fs) + Len(fs) * MedianOfSides(fs), 4 * Len(fs)>>)

\* strategy 3: imageDPI * 35 * centerFactor, within [40, 120]
AdaptiveZoneSize(click, img) ==
  LET imageDPI == ISqrt(img.width * img.height)
      dx == 2 * click[1] - img.width
      dy == 2 * click[2] - img.height
      distanceFromCenter == ISqrt(dx * dx + dy * dy)
      maxDistance == ISqrt(img.width * img.width + img.height * img.height)
      centerFactor == 1000 + (3 * (1000 - (1000 * distanceFromCenter) \div maxDistance)) \div 10
  IN  ClampFraction(40, 120, <<imageDPI * 35 * centerFactor, 1000 * 1000>>)

\* which strategy calculateSmartZoneSize uses
ZoneTier(click, fs, img) ==
  IF SelectSeq(fs, LAMBDA f : IsNearby(f, click, img)) # <<>> THEN "nearby"
  ELSE IF fs # <<>> THEN "global"
  ELSE "adaptive"

calculateSmartZoneSize(click, fs, img) ==
  LET nearbyFaces == SelectSeq(fs, LAMBDA f : IsNearby(f, click, img))
  IN  IF Len(nearbyFaces) > 0 THEN NearbyZoneSize(nearbyFaces)
      ELSE IF Len(fs) > 0 THEN GlobalZoneSize(fs)
      ELSE AdaptiveZoneSize(click, img)

\* a number whole + num / den with 0 <= num < den: the coordinates of a
\* manual region are not whole pixels
Mixed(whole, num, den) == [whole |-> whole, num |-> num, den |-> den]

\* the fraction <<n, d>> as a mixed number of denominator 2 * d
MixedOf(fr) == Mixed(fr[1] \div fr[2], 2 * (fr[1] % fr[2]), 2 * fr[2])

\* half the fraction <<n, d>>, with denominator 2 * d
HalfOf(fr) == Mixed(fr[1] \div (2 * fr[2]), fr[1] % (2 * fr[2]), 2 * fr[2])

\* k - a for an integer k
IntMinus(k, a) ==
  IF a.num = 0 THEN Mixed(k - a.whole, 0, a.den)
  ELSE Mixed(k - a.whole - 1, a.den - a.num, a.den)

\* a < b, for one denominator
MixedLess(a, b) == a.whole < b.whole \/ (a.whole = b.whole /\ a.num < b.num)

MixedMin(a, b) == IF MixedLess(b, a) THEN b ELSE a

MixedMax(a, b) == IF MixedLess(a, b) THEN b ELSE a

\* a + b, for one denominator
MixedSum(a, b) ==
  Mixed(a.whole + b.whole + (a.num + b.num) \div a.den, (a.num + b.num) % a.den, a.den)

\* no region built yet
NoRegion == [has |-> FALSE]

\* const newFace: DetectedFace = { x: Math.max(0, clickX - smartZoneSize / 2), ... }
newFace(click, size, img) ==
  LET left == IntMinus(click[1], HalfOf(size))
      top == IntMinus(click[2], HalfOf(size))
      zero == Mixed(0, 0, 2 * size[2])
  IN  [has |-> TRUE,
       x |-> MixedMax(zero, left),
       y |-> MixedMax(zero, top),
       width |-> MixedMin(MixedOf(size), IntMinus(img.width, left)),
       height |-> MixedMin(MixedOf(size), IntMinus(img.height, top)),
       confidence |-> One,
       enabled |-> TRUE]

\* no click made
ZoneIdle ==
  /\ zImage = [width |-> 0, height |-> 0]
  /\ zFaces = <<>>
  /\ zClick = <<0, 0>>
  /\ zSize = <<0, 1>>
  /\ zTier = "none"
  /\ zRegion = NoRegion

\* a click on an empty place of a loaded image is about to be handled
ZoneInit ==
  /\ zImage \in ZImages
  /\ zFaces \in ZFaceLists(zImage)
  /\ zClick \in ZClicks(zImage)
  /\ zSize = <<0, 1>>
  /\ zTier = "none"
  /\ zRegion = NoRegion

\* const smartZoneSize = calculateSmartZoneSize(clickX, clickY, faces, imageSize)
CalculateSmartZoneSize ==
  /\ zTier = "none"
  /\ zSize' = calculateSmartZoneSize(zClick, zFaces, zImage)
  /\ zTier' = ZoneTier(zClick, zFaces, zImage)
  /\ UNCHANGED <<zImage, zFaces, zClick, zRegion>>

\* the rest of the else branch of handleCanvasClick: newFace is built from
\* smartZoneSize and appended by setFaces
SetManualFace ==
  /\ zTier # "none"
  /\ ~zRegion.has
  /\ zRegion' = newFace(zClick, zSize, zImage)
  /\ UNCHANGED <<zImage, zFaces, zClick, zSize, zTier>>

(***************************************************************************)
(* Specifications.                                                         *)
(***************************************************************************)
\* every specification starts from the constructed session and processor
Init == SessInit /\ ProcInit /\ RenderInit /\ FusionIdle /\ ZoneIdle /\ IoUIdle /\ ClusterIdle /\ NmsIdle /\ FilterIdle /\ ScaleIdle

SessFrame == UNCHANGED <<procVars, rendVars, fusVars, zoneVars, iouVars, clusVars, nmsVars, filtVars, scaleVars>>

ProcFrame == UNCHANGED <<sessVars, rendVars, fusVars, zoneVars, iouVars, clusVars, nmsVars, filtVars, scaleVars>>

RendFrame == UNCHANGED <<sessVars, procVars, fusVars, zoneVars, iouVars, clusVars, nmsVars, filtVars, scaleVars>>

FusFrame == UNCHANGED <<sessVars, procVars, rendVars, zoneVars, iouVars, clusVars, nmsVars, filtVars, scaleVars>>

ZoneFrame == UNCHANGED <<sessVars, procVars, rendVars, fusVars, iouVars, clusVars, nmsVars, filtVars, scaleVars>>

IoUFrame == UNCHANGED <<sessVars, procVars, rendVars, fusVars, zoneVars, clusVars, nmsVars, filtVars, scaleVars>>

ClusFrame == UNCHANGED <<sessVars, procVars, rendVars, fusVars, zoneVars, iouVars, nmsVars, filtVars, scaleVars>>

\* the ImageRedaction session
Next ==
  \/ HandleImageLoad /\ SessFrame
  \/ \E v \in Levels : HandleSensitivityChange(v) /\ SessFrame
  \/ \E spot \in 1..NSpots : HandleCanvasClick(spot) /\ SessFrame
  \/ \E m \in Methods : HandleMethodClick(m) /\ SessFrame
  \/ ResetToOriginal /\ SessFrame
  \/ ApplyRedactionStart /\ SessFrame
  \/ Tick /\ SessFrame
  \/ \E i \in 1..Len(timers), l \in BOOLEAN : RunFaceDetection(i, l) /\ SessFrame
  \/ \E i \in 1..Len(passes), k \in 0..MaxFaces : DetectResolved(i, k) /\ SessFrame
  \/ \E i \in 1..Len(passes) : DetectRejected(i) /\ SessFrame
  \/ \E i \in 1..Len(timers) : GenerateLivePreview(i) /\ SessFrame
  \/ \E i \in 1..Len(previews) : PreviewResolved(i) /\ SessFrame
  \/ \E i \in 1..Len(previews) : PreviewRejected(i) /\ SessFrame
  \/ \E i \in 1..Len(commits) : CommitResolved(i) /\ SessFrame
  \/ \E i \in 1..Len(commits) : CommitVerified(i) /\ SessFrame
  \/ \E i \in 1..Len(commits) : CommitRejected(i) /\ SessFrame

Spec == Init /\ [][Next]_vars

\* the session with Apply requests that may come twice from one render
NextApply ==
  \/ Next
  \/ ApplyRedactionTwice /\ SessFrame

SpecApply == Init /\ [][NextApply]_vars

\* ImageProcessor.detectFaces
NextProc ==
  \/ \E b \in BOOLEAN, l \in SUBSET ModelKeys, m \in BOOLEAN : InitializeModels(b, l, m) /\ ProcFrame
  \/ \E c \in 1..MaxCalls : DetectFacesEntry(c) /\ ProcFrame
  \/ \E c \in 1..MaxCalls : DetectFacesAfterInit(c) /\ ProcFrame
  \/ \E c \in 1..MaxCalls : DetectFacesImageLoaded(c) /\ ProcFrame
  \/ \E c \in 1..MaxCalls : DetectFacesImageFailed(c) /\ ProcFrame
  \/ \E c \in 1..MaxCalls, k \in 0..MaxFaces : DetectFacesSettled(c, k) /\ ProcFrame
  \/ Dispose /\ ProcFrame

SpecProc == Init /\ [][NextProc]_vars

\* ImageProcessor.applyRedaction
NextRender ==
  \/ \E img \in RImages, fs \in RFaceLists, m \in Methods : ApplyRedaction(img, fs, m) /\ RendFrame
  \/ \E d \in BOOLEAN, F \in SUBSET (1..MaxFailAt), b \in BOOLEAN : ApplyRedactionOnload(d, F, b) /\ RendFrame
  \/ ApplyRedactionOnerror /\ RendFrame

SpecRender == Init /\ [][NextRender]_vars

\* one pass of ImageProcessor.advancedEnsembleDetection
InitFusion == SessInit /\ ProcInit /\ RenderInit /\ FusionInit /\ ZoneIdle /\ IoUIdle /\ ClusterIdle /\ NmsIdle /\ FilterIdle /\ ScaleIdle

NextFusion ==
  \/ RunStrategies /\ FusFrame
  \/ \E m \in BOOLEAN, t \in BOOLEAN, lms \in SUBSET LandmarkBoxes : LandmarkGuidedValidation(m, t, lms) /\ FusFrame
  \/ AdvancedEnsembleFusion /\ FusFrame

SpecFusion == InitFusion /\ [][NextFusion]_vars

\* one canvas click that adds a manual region
InitZone == SessInit /\ ProcInit /\ RenderInit /\ FusionIdle /\ ZoneInit /\ IoUIdle /\ ClusterIdle /\ NmsIdle /\ FilterIdle /\ ScaleIdle

NextZone ==
  \/ CalculateSmartZoneSize /\ ZoneFrame
  \/ SetManualFace /\ ZoneFrame

SpecZone == InitZone /\ [][NextZone]_vars

\* one comparison of two rectangles
InitIoU == SessInit /\ ProcInit /\ RenderInit /\ FusionIdle /\ ZoneIdle /\ IoUInit /\ ClusterIdle /\ NmsIdle /\ FilterIdle /\ ScaleIdle

NextIoU ==
  \/ CalculateIoU /\ IoUFrame

SpecIoU == InitIoU /\ [][NextIoU]_vars

\* one call of confidenceBasedClustering
InitCluster ==
  SessInit /\ ProcInit /\ RenderInit /\ FusionIdle /\ ZoneIdle /\ IoUIdle /\ ClusterInit /\ NmsIdle /\ FilterIdle /\ ScaleIdle

NextCluster ==
  \/ ConfidenceBasedClustering /\ ClusFrame

SpecCluster == InitCluster /\ [][NextCluster]_vars

NmsFrame == UNCHANGED <<sessVars, procVars, rendVars, fusVars, zoneVars, iouVars, clusVars, filtVars, scaleVars>>

\* one call of adaptiveNonMaxSuppression
InitNms ==
  SessInit /\ ProcInit /\ RenderInit /\ FusionIdle /\ ZoneIdle /\ IoUIdle /\ ClusterIdle /\ NmsInit /\ FilterIdle /\ ScaleIdle

NextNms ==
  \/ AdaptiveNonMaxSuppression /\ NmsFrame

SpecNms == InitNms /\ [][NextNms]_vars

FiltFrame ==
  UNCHANGED <<sessVars, procVars, rendVars, fusVars, zoneVars, iouVars, clusVars, nmsVars, scaleVars>>

\* one call of advancedQualityFilter
InitFilter ==
  /\ SessInit /\ ProcInit /\ RenderInit /\ FusionIdle /\ ZoneIdle /\ IoUIdle
  /\ ClusterIdle /\ NmsIdle /\ FilterInit /\ ScaleIdle

NextFilter ==
  \/ AdvancedQualityFilter /\ FiltFrame

SpecFilter == InitFilter /\ [][NextFilter]_vars

ScaleFrame ==
  UNCHANGED <<sessVars, procVars, rendVars, fusVars, zoneVars, iouVars, clusVars, nmsVars,
              filtVars>>

\* one face scaled to the preview or the export surface
InitScale ==
  /\ SessInit /\ ProcInit /\ RenderInit /\ FusionIdle /\ ZoneIdle /\ IoUIdle
  /\ ClusterIdle /\ NmsIdle /\ FilterIdle /\ ScaleInit

NextScale ==
  \/ ScaleFace /\ ScaleFrame

SpecScale == InitScale /\ [][NextScale]_vars

(***************************************************************************)
(* Detection passes through both layers: runFaceDetection of the session   *)
(* calls detectFaces of its processor and resumes when that call returns.  *)
(***************************************************************************)
PassFrame ==
  UNCHANGED <<rendVars, fusVars, zoneVars, iouVars, clusVars, nmsVars, filtVars, scaleVars>>

\* the detectFaces call made last
CurrentCall ==
  CHOOSE c \in 1..MaxCalls :
    calls[c].pc # "idle" /\ \A d \in (c + 1)..MaxCalls : calls[d].pc = "idle"

\* a detection timer fires: runFaceDetection, and past its guard
\* processorRef.current.detectFaces(file, sensitivity) up to its first await
RunFaceDetectionPass(i) ==
  \E c \in 1..MaxCalls :
    /\ calls[c].pc = "idle"
    /\ \A d \in 1..(c - 1) : calls[d].pc # "idle"
    /\ RunFaceDetection(i, TRUE)
    /\ IF RunFaceDetectionGuard THEN UNCHANGED procVars ELSE DetectFacesEntry(c)

\* `await processorRef.current.detectFaces(...)` resumes with what the call
\* returned
DetectFacesReturned(i) ==
  /\ i \in 1..Len(passes)
  /\ calls[CurrentCall].pc = "done"
  /\ DetectResolved(i, calls[CurrentCall].found)
  /\ UNCHANGED procVars

NextPass ==
  \/ HandleImageLoad /\ UNCHANGED procVars /\ PassFrame
  \/ \E v \in Levels : HandleSensitivityChange(v) /\ UNCHANGED procVars /\ PassFrame
  \/ Tick /\ UNCHANGED procVars /\ PassFrame
  \/ \E i \in 1..Len(timers) : RunFaceDetectionPass(i) /\ PassFrame
  \/ \E i \in 1..Len(passes) : DetectFacesReturned(i) /\ PassFrame
  \/ \E i \in 1..Len(timers) : GenerateLivePreview(i) /\ UNCHANGED procVars /\ PassFrame
  \/ \E i \in 1..Len(previews) : PreviewResolved(i) /\ UNCHANGED procVars /\ PassFrame
  \/ \E i \in 1..Len(previews) : PreviewRejected(i) /\ UNCHANGED procVars /\ PassFrame
  \/ \E b \in BOOLEAN, l \in SUBSET ModelKeys, m \in BOOLEAN :
       InitializeModels(b, l, m) /\ UNCHANGED sessVars /\ PassFrame
  \/ \E c \in 1..MaxCalls : DetectFacesAfterInit(c) /\ UNCHANGED sessVars /\ PassFrame
  \/ \E c \in 1..MaxCalls : DetectFacesImageLoaded(c) /\ UNCHANGED sessVars /\ PassFrame
  \/ \E c \in 1..MaxCalls : DetectFacesImageFailed(c) /\ UNCHANGED sessVars /\ PassFrame
  \/ \E c \in 1..MaxCalls, k \in 0..MaxFaces :
       DetectFacesSettled(c, k) /\ UNCHANGED sessVars /\ PassFrame

\* every awaited promise settles and its continuation runs: the model load,
\* the image's load or error event, the detection pipeline, the detectFaces
\* call itself
FairPass ==
  /\ WF_vars(\E b \in BOOLEAN, l \in SUBSET ModelKeys, m \in BOOLEAN :
               InitializeModels(b, l, m) /\ UNCHANGED sessVars /\ PassFrame)
  /\ WF_vars(\E c \in 1..MaxCalls : DetectFacesAfterInit(c) /\ UNCHANGED sessVars /\ PassFrame)
  /\ WF_vars(\E c \in 1..MaxCalls :
               /\ DetectFacesImageLoaded(c) \/ DetectFacesImageFailed(c)
               /\ UNCHANGED sessVars /\ PassFrame)
  /\ WF_vars(\E c \in 1..MaxCalls, k \in 0..MaxFaces :
               DetectFacesSettled(c, k) /\ UNCHANGED sessVars /\ PassFrame)
  /\ WF_vars(\E i \in 1..Len(passes) : DetectFacesReturned(i) /\ PassFrame)

SpecPass == Init /\ [][NextPass]_vars /\ FairPass

(***************************************************************************)
(* Claims about the session.                                               *)
(***************************************************************************)
DetectionInProgress == Len(passes) > 0
CommitInProgress == Len(commits) > 0
PendingDetect(ts) == Len(SelectSeq(ts, LAMBDA t : t.kind \in DetectKinds))

\* nothing is scheduled or in flight: without user input nothing more happens
Quiescent == timers = <<>> /\ passes = <<>> /\ commits = <<>> /\ previews = <<>>

\* C2: a detection pass and a commit redaction are never in progress at the
\* same time.
C2_NoDetectionDuringCommit == ~(DetectionInProgress /\ CommitInProgress)

\* C3: at most one runFaceDetection pass is in flight, and a request that
\* arrives while isDetectionRunningRef is set starts no pass and leaves the
\* region list, the detecting flag and the error unchanged.
C3_SingleFlightDetection ==
  /\ [](Len(passes) <= 1)
  /\ [][(isDetectionRunningRef /\ PendingDetect(timers') < PendingDetect(timers))
          => (passes' = passes /\ faces' = faces /\ detecting' = detecting
              /\ error' = error)]_vars

\* C3 witness: a request was dropped while a pass was in flight
C3_Witness == dropped > 0 /\ Len(passes) = 1 /\ isDetectionRunningRef

\* C5: after a sensitivity change, once nothing is scheduled or in flight any
\* more, the region list is the output of a pass run with the selected level.
C5_SelectedLevelDetected ==
  (Quiescent /\ imageLoaded /\ sensChanged) => facesLevel = sensitivityLevel

\* the preview the current regions and method call for
ExpectedPreview ==
  IF Len(Enabled(faces)) = 0 THEN NoRender
  ELSE Rendered(Enabled(faces), selectedMethod)

\* C6: once every timer and every render has finished (and none failed), the
\* live preview is the one rendered from the current enabled regions with the
\* selected method, or empty when no region is enabled.
C6_PreviewInSync ==
  (Quiescent /\ ~previewFailed) => livePreviewUrl = ExpectedPreview

\* C7: a committed output that is available was rendered from the current
\* enabled regions with the selected method: an edit (a toggle, a manual
\* addition, a method change) made while a committed output is available
\* invalidates it.
C7_EditInvalidatesCommit ==
  [][(processedBlob.has /\ edits' > edits
       /\ (Enabled(faces') # Enabled(faces) \/ selectedMethod' # selectedMethod))
      => ~processedBlob'.has]_vars

\* C10: the ids of the regions in the region list are pairwise distinct.
C10_IdsDistinct ==
  \A i, j \in 1..Len(faces) : i # j => faces[i].id # faces[j].id

(***************************************************************************)
(* Claims about ImageProcessor.detectFaces.                                *)
(***************************************************************************)
InPipeline == {c \in 1..MaxCalls : calls[c].pc = "pipeline"}

\* C4: at most one detectFaces call executes the detection pipeline at a time,
\* and isProcessing is true for as long as any call executes it.
C4_SingleFlightPipeline ==
  /\ Cardinality(InPipeline) <= 1
  /\ (InPipeline # {} => isProcessing)

(***************************************************************************)
(* Claims about ImageProcessor.applyRedaction.                             *)
(***************************************************************************)
\* the rectangle the call redacts for its i-th face
RedactedRect(i) ==
  LET face == rFaces[i]
      size == CanvasSize(rImg)
  IN  Clamped(Rect((face.x * size.width) \div rImg.width,
                   (face.y * size.height) \div rImg.height,
                   (face.width * size.width) \div rImg.width,
                   (face.height * size.height) \div rImg.height),
              size.width, size.height)

Covered(rect) ==
  \A p \in DOMAIN canvas.px : InRect(p, rect) => canvas.by[p] \in {rMethod, "blackout"}

C8_RegionsInsideImage ==
  stage = "fused" =>
    \A i \in 1..Len(finalFaces) :
      /\ 0 <= finalFaces[i].x
      /\ 0 <= finalFaces[i].y
      /\ finalFaces[i].x + finalFaces[i].width <= FusionImage.width
      /\ finalFaces[i].y + finalFaces[i].height <= FusionImage.height

\* C9: every region detectFaces returns has a confidence in [0, 1], regions
\* that come from a cluster of one candidate included.
C9_ConfidenceInUnitInterval ==
  stage = "fused" =>
    \A i \in 1..Len(finalFaces) :
      0 <= finalFaces[i].confidence /\ finalFaces[i].confidence <= One

\* C11: the fusion returns no more regions than it was given candidates and
\* never more than 250, and the NMS stage keeps at most 200 regions.
C11_FusionNeverGrows ==
  stage = "fused" =>
    /\ Len(finalFaces) <= Len(validatedResults)
    /\ Len(finalFaces) <= resultLimit
    /\ Len(finalFaces) <= nmsKeepLimit

\* more than 200 separate faces went into the fusion and 200 came out
C11_Witness ==
  /\ stage = "fused"
  /\ Len(validatedResults) > nmsKeepLimit
  /\ Len(qualityFiltered) = Len(validatedResults)
  /\ Len(clustered) = Len(validatedResults)
  /\ Len(finalFaces) = nmsKeepLimit

(***************************************************************************)
(* Claims about manual regions.                                            *)
(***************************************************************************)
\* C12: calculateSmartZoneSize returns a side length in [32, 200], whichever
\* of its three strategies produces it.
C12_ZoneSizeInRange ==
  zTier # "none" => (32 * zSize[2] <= zSize[1] /\ zSize[1] <= 200 * zSize[2])

\* the nearby strategy met faces larger than 200 and answered 200
C12_Witness ==
  /\ zTier = "nearby"
  /\ SumOfSides(SelectSeq(zFaces, LAMBDA f : IsNearby(f, zClick, zImage)))
       > 400 * Len(SelectSeq(zFaces, LAMBDA f : IsNearby(f, zClick, zImage)))
  /\ zSize = <<200, 1>>

(***************************************************************************)
(* Claims about the redaction methods, face by face.                       *)
(***************************************************************************)
\* the canvas the i-th face was redacted on
CanvasBefore(i) ==
  IF i = 1 THEN DrawnImage(ResizedCanvas(CanvasSize(rImg))) ELSE rTrace[i - 1]

\* the rectangle redacted for the i-th face
RegionOf(i) ==
  Clamped(ScaledFace(rFaces[i], rTrace[i], rImg), rTrace[i].width, rTrace[i].height)

\* every pixel of the i-th face's rectangle was last drawn by `who`
DrawnBy(i, who) ==
  \A p \in DOMAIN rTrace[i].px : InRect(p, RegionOf(i)) => rTrace[i].by[p] = who

\* C13: with pixelate or blackout, redacting a region a second time with the
\* same geometry leaves the surface exactly as the first redaction left it
\* (the second pixelation filling every block from its sample).
C13_SecondPassChangesNothing ==
  \A i \in 2..Len(rTrace) :
    ( /\ rMethod \in {"pixelate", "blackout"}
      /\ rFaces[i] = rFaces[i - 1]
      /\ DrawnBy(i, rMethod) )
    => rTrace[i].px = rTrace[i - 1].px

\* a region of more than one block was pixelated twice
C13_Witness ==
  /\ rOutcome = "resolved"
  /\ rMethod = "pixelate"
  /\ Len(rTrace) = 2
  /\ rFaces[1] = rFaces[2]
  /\ RegionOf(2).width > pixelSize(RegionOf(2))
  /\ DrawnBy(2, "pixelate")
  /\ rTrace[1].px # CanvasBefore(1).px

\* C19: when blur fails on a region of a committed render, the surface is
\* the one a direct blackout call on that region would have produced.
C19_BlurFallbackIsBlackout ==
  \A i \in 1..Len(rTrace) :
    (rOutcome = "resolved" /\ rMethod = "blur"
       /\ RegionOf(i).width > 0 /\ RegionOf(i).height > 0
       /\ DrawnBy(i, "blackout"))
    => rTrace[i].px
         = applyBlackoutWithContext(NewRender(CanvasBefore(i), {}), RegionOf(i)).c.px

(***************************************************************************)
(* Claims about calculateIoU.                                              *)
(***************************************************************************)
\* the unit cells of a rectangle with integer corners
Cells(b) == {p \in (0..34) \X (0..19) : InRect(p, b)}

\* symmetric, within [0, 1], 0 without a common cell, and the worked example
IoUBasics ==
  /\ iou12 = iou21
  /\ iou12[2] > 0 /\ 0 <= iou12[1] /\ iou12[1] <= iou12[2]
  /\ (Cells(box1) \cap Cells(box2) = {}) => iou12[1] = 0
  /\ (box1 = Rect(0, 0, 10, 10) /\ box2 = Rect(5, 5, 10, 10)) => iou12 = <<25, 175>>

\* C14 as stated: calculateIoU is symmetric, lies in [0, 1], is 0 for
\* rectangles that do not intersect and 1 for two identical rectangles,
\* whatever their (non-negative) width and height; the example gives 25/175.
C14_IoUAllRectangles ==
  iouDone => (IoUBasics /\ (box1 = box2 => iou12[1] = iou12[2]))

\* C14, amended: the same, with the value 1 only for identical rectangles of
\* positive width and height (an empty rectangle against itself gives 0).
C14_IoUProperties ==
  iouDone =>
    /\ IoUBasics
    /\ (box1 = box2 /\ box1.width > 0 /\ box1.height > 0) => iou12[1] = iou12[2]
    /\ (box1 = box2 /\ (box1.width = 0 \/ box1.height = 0)) => iou12[1] = 0

\* two overlapping rectangles of different areas were compared
C14_Witness ==
  /\ iouDone
  /\ box1.width * box1.height # box2.width * box2.height
  /\ iou12[1] = Cardinality(Cells(box1) \cap Cells(box2))
  /\ iou12[2] = Cardinality(Cells(box1) \cup Cells(box2))
  /\ 0 < iou12[1] /\ iou12[1] < iou12[2]

(***************************************************************************)
(* Claims about detection when models are missing or fail.                 *)
(***************************************************************************)
\* the predictions of the invocations that neither throw nor name a model
\* that is not loaded
WorkingPredictions ==
  SelectSeq(predictions,
            LAMBDA p : StrategyModel(p.strategy, sensitivity) \in available
                       /\ p.strategy # threw)

\* C16: an invocation that throws, or whose model is not loaded, contributes
\* no candidate; the candidates of the other invocations are all collected,
\* and go on to validation and fusion.
C16_FailedInvocationContributesNothing ==
  stage # "start" =>
    /\ allCandidates = CollectCandidates(WorkingPredictions, sensitivity,
                                         {Full, Short}, "none")
    /\ stage # "collected" => Len(validatedResults) = Len(allCandidates)

\* a pass in which one invocation threw away a prediction that would have
\* been a candidate, and another invocation's candidate came through
C16_Witness ==
  /\ stage = "fused"
  /\ threw # "none"
  /\ \E i \in 1..Len(predictions) :
        /\ predictions[i].strategy = threw
        /\ StrategyModel(threw, sensitivity) \in available
        /\ StrategyRuns(threw, sensitivity)
        /\ PassesDetectorThreshold(predictions[i], sensitivity)
  /\ Len(allCandidates) = 1
  /\ Len(finalFaces) = 1

\* calculateOverlap of a candidate and a landmark box, as <<intersection, union>>
LandmarkIoU(c, b) ==
  calculateIoU([x |-> c.x, y |-> c.y, width |-> c.width, height |-> c.height],
               Rect(b.xMin, b.yMin, b.xMax - b.xMin, b.yMax - b.yMin))

\* the landmark step changed the i-th candidate
Boosted(i) == validatedResults[i] # allCandidates[i]

\* C17: landmarkGuidedValidation keeps the number, order, geometry and
\* source of the candidates; without a landmark model, or when the step
\* throws, the candidates come back unchanged; otherwise exactly the
\* candidates whose IoU with a reported landmark box is above 0.3 get the
\* landmarks and the confidence min(1.0, confidence * 1.1).
C17_ValidationOnlyBoosts ==
  stage \in {"validated", "fused"} =>
    /\ Len(validatedResults) = Len(allCandidates)
    /\ meshOutcome \in {"none", "threw"} => validatedResults = allCandidates
    /\ \A i \in 1..Len(allCandidates) :
         LET c == allCandidates[i]
             v == validatedResults[i]
             matched == meshOutcome = "ok"
                          /\ \E b \in landmarkSets : IoUAbove(LandmarkIoU(c, b), 300)
         IN  /\ v.x = c.x /\ v.y = c.y /\ v.width = c.width /\ v.height = c.height
             /\ v.model = c.model
             /\ matched => (v.landmarks /\ v.confidence * 10 = Min(10 * One, c.confidence * 11))
             /\ ~matched => v = c

\* of two candidates the landmark step boosted one to the cap of 1.0 and
\* left the other alone
C17_Witness ==
  /\ stage = "validated"
  /\ meshOutcome = "ok"
  /\ Len(allCandidates) = 2
  /\ \E i, j \in 1..2 :
        /\ Boosted(i) /\ ~Boosted(j)
        /\ validatedResults[i].confidence = One
        /\ allCandidates[i].confidence < One

\* C15: a detection pass made while no detector model is available ends
\* with the error state set, not as a completed pass with zero regions.
C15_NoModelShowsError ==
  [][\A i \in 1..Len(passes) :
       (~passes[i].models /\ passes' = RemoveAt(passes, i)) => error']_vars

\* C18: the numeric sensitivity the session hands to detectFaces lies in
\* [0, 1] for each of the three slider levels.
C18_PassedSensitivityInUnitInterval ==
  \A i \in 1..Len(passes) : 0 <= passes[i].sens /\ passes[i].sens <= 1

(***************************************************************************)
(* Claims about confidenceBasedClustering.                                 *)
(***************************************************************************)
\* the IoU of the two candidates of a pair
PairIoU == calculateIoU(kCandidates[1], kCandidates[2])

\* the two candidates of a pair went into one cluster
PairClustered == Len(kClusters) = 1 /\ Len(kClusters[1]) = 2

\* C20 as stated: the clustering threshold is 0.5 below sensitivity 0.7 and
\* 0.3 at or above it, so a pair with IoU 0.4 is one cluster at 0.8 and at
\* 0.7, and two clusters at 0.5.
C20_ThresholdAtOrAbove ==
  (kDone /\ Len(kCandidates) = 2) =>
    (PairClustered <=> IoUAbove(PairIoU, IF kSensitivity >= 70 THEN 300 ELSE 500))

\* C20, amended: the threshold is 0.3 only above sensitivity 0.7 and 0.5 up
\* to and at 0.7, so a pair with IoU 0.4 is one cluster at 0.8, and two
\* clusters at 0.7 and at 0.5.
C20_ThresholdAbove ==
  (kDone /\ Len(kCandidates) = 2) =>
    /\ PairClustered <=> IoUAbove(PairIoU, IF kSensitivity > 70 THEN 300 ELSE 500)
    /\ PairIoU = <<2800, 7000>> => (PairClustered <=> kSensitivity \in {71, 80})

\* a pair with IoU 0.4 clustered at sensitivity 0.8
C20_Witness ==
  /\ kDone
  /\ Len(kCandidates) = 2
  /\ kSensitivity = 80
  /\ PairIoU = <<2800, 7000>>
  /\ PairClustered
  /\ Len(kResult) = 1

(***************************************************************************)
(* Claims about bursts of edits and overlapping commits.                   *)
(***************************************************************************)
\* whether a pending preview timer will call createLivePreview when it fires
StartsPreview(t) ==
  /\ ~t.glp.processing
  /\ Len(Enabled(IF t.hasArg THEN t.arg ELSE t.glp.faces)) > 0

\* C21: a burst of edits starts exactly one live-preview recomputation, after
\* its last edit, the timers of its earlier edits being cancelled: when a
\* timer set by an edit fires and starts a recomputation, no timer set by an
\* edit before that instant is left to start another.
C21_OneRecomputationPerBurst ==
  [][\A i \in 1..Len(timers) :
       ( /\ timers[i].kind \in {"previewToggle", "previewMethod", "previewEffect"}
         /\ timers' = RemoveAt(timers, i)
         /\ Len(previews') > Len(previews) )
       => \A j \in 1..Len(timers') :
            ~( /\ timers'[j].kind \in {"previewToggle", "previewMethod"}
               /\ timers'[j].rem < timers'[j].delay
               /\ StartsPreview(timers'[j]) )]_vars

\* C22: at most one applyRedaction render is in flight on the export canvas,
\* also when a second commit is requested before the `processing` set by the
\* first is visible to the handler.
C22_OneRenderInFlight ==
  Cardinality({i \in 1..Len(commits) : commits[i].stage = "render"}) <= 1

(***************************************************************************)
(* Claims about clustering and suppression.                                *)
(***************************************************************************)
\* C23: for every cluster, a cluster of one candidate included, the emitted
\* region has the rounded mean of the members' x, y, width and height and the
\* confidence min(1.0, best score), the score being the confidence times 1.1
\* for the high-accuracy source and times 1.15 with landmarks.
C23_ClusterRegion ==
  kDone =>
    \A i \in 1..Len(kClusters) :
      LET cluster == kClusters[i]
          n == Len(cluster)
      IN  /\ kResult[i].x = RoundedAverage(SumOf(cluster, "x"), n)
          /\ kResult[i].y = RoundedAverage(SumOf(cluster, "y"), n)
          /\ kResult[i].width = RoundedAverage(SumOf(cluster, "width"), n)
          /\ kResult[i].height = RoundedAverage(SumOf(cluster, "height"), n)
          /\ kResult[i].confidence = Min(One, ClusterScore(BestOf(cluster, n)))

\* how often v occurs in the sequence
Count(seq, v) == Cardinality({i \in 1..Len(seq) : seq[i] = v})

\* the adaptive threshold as stated, in thousandths: 0.4, or 0.25 above
\* sensitivity 0.7, times 0.8 when the smaller area is under half the larger
StatedThreshold(a, b, sens) ==
  LET small == Min(a.width * a.height, b.width * b.height)
      large == Max(a.width * a.height, b.width * b.height)
      base == IF sens > 70 THEN 250 ELSE 400
  IN  IF 2 * small < large THEN (base * 4) \div 5 ELSE base

\* a overlaps b above the stated threshold
Suppresses(a, b, sens) ==
  IoUAbove(calculateIoU(a, b), StatedThreshold(a, b, sens))

\* C24: the output of adaptive suppression is in descending order of
\* confidence; no kept region exceeds the adaptive threshold against an
\* earlier kept region; the kept regions are candidates, and a candidate is
\* left out only if it exceeds the threshold against a kept region or 200
\* regions are kept.
C24_SuppressionOutput ==
  nDone =>
    /\ \A i, j \in 1..Len(nResult) :
         i < j => /\ nResult[i].confidence >= nResult[j].confidence
                  /\ ~Suppresses(nResult[j], nResult[i], nSensitivity)
    /\ \A k \in 1..Len(nResult) :
         Count(nResult, nResult[k]) <= Count(nCandidates, nResult[k])
    /\ \A i \in 1..Len(nCandidates) :
         Count(nCandidates, nCandidates[i]) > Count(nResult, nCandidates[i])
           => \/ \E k \in 1..Len(nResult) :
                   Suppresses(nCandidates[i], nResult[k], nSensitivity)
              \/ Len(nResult) >= nmsKeepLimit

\* a call that kept two regions and left out a candidate that only the
\* threshold for unequal sizes suppresses
C24_Witness ==
  /\ nDone
  /\ Len(nResult) = 2
  /\ nSensitivity <= 70
  /\ \E i \in 1..Len(nCandidates) :
       /\ Count(nResult, nCandidates[i]) = 0
       /\ \A k \in 1..Len(nResult) :
            ~IoUAbove(calculateIoU(nCandidates[i], nResult[k]), 400)

\* whether the areas of a and b differ by more than a factor of two
UnequalSizes(a, b) ==
  2 * Min(a.width * a.height, b.width * b.height)
    < Max(a.width * a.height, b.width * b.height)

\* C25: at a fixed sensitivity and IoU, when a candidate is suppressed by a
\* kept region whose area differs from its own by more than 2x, a candidate
\* with the same IoU against that kept region and an area similar to it is
\* suppressed too.
C25_UnequalSizesSuppressLess ==
  nDone =>
    \A i \in 1..Len(nCandidates) :
      Count(nResult, nCandidates[i]) = 0 =>
        \A k \in 1..Len(nResult) :
          ( /\ UnequalSizes(nCandidates[i], nResult[k])
            /\ IoUAbove(calculateIoU(nCandidates[i], nResult[k]),
                        nmsThreshold(nCandidates[i], nResult[k], nSensitivity)) )
          => \A j \in 1..Len(nCandidates) :
               LET iouA == calculateIoU(nCandidates[i], nResult[k])
                   iouB == calculateIoU(nCandidates[j], nResult[k])
               IN  ( /\ ~UnequalSizes(nCandidates[j], nResult[k])
                     /\ nCandidates[j] # nResult[k]
                     /\ iouA[1] * iouB[2] = iouB[1] * iouA[2] )
                   => Count(nResult, nCandidates[j]) = 0

(***************************************************************************)
(* Claims about the quality filter.                                        *)
(***************************************************************************)
\* the conditions as stated, any of which removes a candidate
StatedRejection(c, img, sens) ==
  LET m == Min(img.width, img.height)
  IN  \/ Min(c.width, c.height) * 1000 < m * (IF sens > 70 THEN 8 ELSE 15)
      \/ Max(c.width, c.height) * 10 > m * 8
      \/ c.width * 10 < 4 * c.height
      \/ c.width * 10 > 25 * c.height
      \/ c.confidence < Max(One \div 10, 6 * (One \div 10) - 4 * sens * (One \div 1000))
      \/ c.x < 0 \/ c.y < 0
      \/ c.x + c.width > img.width \/ c.y + c.height > img.height

\* C26: advancedQualityFilter keeps exactly the candidates that meet none of
\* the stated conditions, in their input order, and every candidate kept at
\* one sensitivity is kept at every higher sensitivity.
C26_QualityFilter ==
  fDone =>
    /\ fResult = SelectSeq(fCandidates,
                           LAMBDA c : ~StatedRejection(c, FilterImage, fSensitivity))
    /\ \A i \in 1..Len(fResult) : \A higher \in fSensitivity..200 :
         PassesQualityFilter(fResult[i], FilterImage.width, FilterImage.height, higher)

\* a call at sensitivity 0.7 that kept the second of two candidates and
\* removed the first, a 2 x 2 box, which is kept above 0.7
C26_Witness ==
  /\ fDone
  /\ fSensitivity = 70
  /\ Len(fCandidates) = 2
  /\ fResult = <<fCandidates[2]>>
  /\ fCandidates[1].width = 2
  /\ PassesQualityFilter(fCandidates[1], FilterImage.width, FilterImage.height, 71)

(***************************************************************************)
(* Claims about the geometry of redaction.                                 *)
(***************************************************************************)
\* C27: with blackout or pixelate, redacting a face changes only pixels of
\* the surface that lie inside the face's rectangle; a rectangle that meets
\* the surface nowhere changes nothing, and a rectangle that starts at a
\* negative coordinate changes nothing beyond its own right and bottom edges.
\* Stated for the renders that resolved.
C27_ChangesOnlyInsideRectangle ==
  \A i \in 1..Len(rTrace) :
    (rOutcome = "resolved" /\ rMethod \in {"pixelate", "blackout"}) =>
      \A p \in DOMAIN rTrace[i].px :
        rTrace[i].px[p] # CanvasBefore(i).px[p]
          => InRect(p, ScaledFace(rFaces[i], rTrace[i], rImg))

\* C28: every manual region added by a click inside the image has a positive
\* width and height, starts at or after 0 and ends at or before the image's
\* width and height, whatever the image size and zone size, and is added
\* enabled with confidence 1.0.
C28_ManualRegionInsideImage ==
  zRegion.has =>
    LET zero == Mixed(0, 0, zRegion.x.den)
        right == MixedSum(zRegion.x, zRegion.width)
        bottom == MixedSum(zRegion.y, zRegion.height)
    IN  /\ MixedLess(zero, zRegion.width)
        /\ MixedLess(zero, zRegion.height)
        /\ ~MixedLess(zRegion.x, zero)
        /\ ~MixedLess(zRegion.y, zero)
        /\ ~MixedLess(Mixed(zImage.width, 0, zRegion.x.den), right)
        /\ ~MixedLess(Mixed(zImage.height, 0, zRegion.x.den), bottom)
        /\ zRegion.enabled
        /\ zRegion.confidence = One

\* C29: on the preview surface and on the export surface the scaled face is
\* floor(x * s), floor(y * s), floor(width * s), floor(height * s), and that
\* rectangle covers every pixel of the surface that the face scaled by s
\* overlaps.
C29_ScaledFaceCovers ==
  sDone =>
    /\ sRect = Rect((sFace.x * sSurface.width) \div sImg.width,
                    (sFace.y * sSurface.height) \div sImg.height,
                    (sFace.width * sSurface.width) \div sImg.width,
                    (sFace.height * sSurface.height) \div sImg.height)
    /\ \A px \in 0..(sSurface.width - 1) :
         ( /\ px * sImg.width < (sFace.x + sFace.width) * sSurface.width
           /\ (px + 1) * sImg.width > sFace.x * sSurface.width )
         => (sRect.x <= px /\ px < sRect.x + sRect.width)
    /\ \A py \in 0..(sSurface.height - 1) :
         ( /\ py * sImg.height < (sFace.y + sFace.height) * sSurface.height
           /\ (py + 1) * sImg.height > sFace.y * sSurface.height )
         => (sRect.y <= py /\ py < sRect.y + sRect.height)

(***************************************************************************)
(* Claims about the end of a detection pass.                               *)
(***************************************************************************)
\* a detection pass is running, in the session or in the processor
PassRunning ==
  \/ Len(passes) > 0
  \/ \E c \in 1..MaxCalls : calls[c].pc \in {"awaitInit", "loading", "pipeline"}

\* no guard of detection is set
GuardsClear == ~isProcessing /\ ~isDetectionRunningRef /\ ~detecting

\* C30: every detection pass that starts eventually ends, and however it
\* ends isProcessing, isDetectionRunningRef and detecting are cleared: when no
\* pass is running no guard is set, so that no later detection is dropped by
\* a guard left set.
C30_PassEndsAndClearsGuards ==
  /\ PassRunning ~> (~PassRunning /\ GuardsClear)
  /\ [](~PassRunning => GuardsClear)

\* a second pass runs its pipeline after the first went through the
\* processor and ended without regions
C30_Witness ==
  /\ calls[1].pc = "done" /\ ~calls[1].skipped /\ calls[1].found = 0
  /\ initializationPromise = "resolved"
  /\ calls[2].pc = "pipeline"
  /\ Len(passes) = 1
  /\ dropped = 0

====
